---- MODULE Spec2Model ----
(***************************************************************************)
(* Model of the Quark request dispatcher: pattern compilation and route    *)
(* lookup (router.go), middleware composition (middleware.go), the pooled  *)
(* request context (context.go, response.go) and App.ServeHTTP with its    *)
(* error translation (quark.go).                                           *)
(*                                                                         *)
(* Strings are sequences of one-character strings, so that scanning,       *)
(* trimming and matching are computed character by character as the code   *)
(* does.                                                                   *)
(***************************************************************************)
EXTENDS Integers, Sequences, FiniteSets, TLC

\* ------------------------------------------------------------------------
\* Bounds of the model
\* ------------------------------------------------------------------------

\* routes the router specification registers
MaxRoutes == 3

\* routes registered on the application in the dispatcher specification
MaxAppRoutes == 1

\* global middleware added with App.Use
MaxGlobalMw == 2

\* requests served one after the other in the dispatcher specification
MaxReqs == 2

\* requests started in the pool specification
MaxPoolReqs == 2

\* requests served in the router specification
MaxRouterReqs == 1

\* composed handlers called in the chain specification
MaxChainReqs == 1

\* middleware passed to Chain / WrapMiddleware in the chain specification
MaxChain == 3

\* length of the paths looked up in the matching specification
MaxPathLen == 4

\* routes registered in the matching specification
MaxMatchRoutes == 1

\* times the path is looked up in the matching specification
MaxMatchReqs == 1

\* registrations started in the lock specification
MaxLockRoutes == 2

\* lookups started in the lock specification
MaxLockFinds == 2

\* calls made on route groups in the group specification
MaxGroupOps == 4

\* requests served in the group specification
MaxGroupReqs == 1

\* Context.WithContext calls of a request
MaxWithContext == 2

\* calls made on the Container
MaxConOps == 4

\* calls made on the Container of SpecReset
MaxResetOps == 5

\* calls made on the groups of SpecShare
MaxShareOps == 5

\* ------------------------------------------------------------------------
\* Strings
\* ------------------------------------------------------------------------

Max(S) == CHOOSE x \in S : \A y \in S : y <= x

Min(S) == CHOOSE x \in S : \A y \in S : x <= y

\* strings.TrimSuffix(s, "/")
TrimSuffixSlash(s) ==
    IF Len(s) > 0 /\ s[Len(s)] = "/" THEN SubSeq(s, 1, Len(s) - 1) ELSE s

\* strings.Index(s, ch) for a one-character needle, 1-based; 0 when absent (-1 in Go)
IndexOf(s, ch) ==
    LET hits == {k \in 1..Len(s) : s[k] = ch}
    IN IF hits = {} THEN 0 ELSE Min(hits)

\* ------------------------------------------------------------------------
\* parsePattern: the compiled matcher is a sequence of tokens, a literal
\* character (regexp.QuoteMeta of one character) or a capture group holding
\* the constraint text; the anchors ^ and /?$ are applied by MatchFrom.
\* ------------------------------------------------------------------------

Lit(ch) == [t |-> "lit", c |-> ch, re |-> <<>>]

Grp(re) == [t |-> "grp", c |-> "", re |-> re]

DefaultParamRegex == <<"[", "^", "/", "]", "+">>

\* a scan that drops a "{" that has no "}" behind it
RECURSIVE parseFromDropBrace(_, _, _, _)
parseFromDropBrace(pattern, i, toks, names) ==
    IF i > Len(pattern) THEN [regex |-> toks, paramNames |-> names]
    ELSE IF pattern[i] = "{" THEN
        LET rest == SubSeq(pattern, i, Len(pattern))
            rel  == IndexOf(rest, "}")
        IN IF rel = 0
           THEN parseFromDropBrace(pattern, i + 1, toks, names)
           ELSE LET end       == rel + i - 1
                    paramSpec == SubSeq(pattern, i + 1, end - 1)
                    colonIdx  == IndexOf(paramSpec, ":")
                    paramName == IF colonIdx # 0
                                 THEN SubSeq(paramSpec, 1, colonIdx - 1)
                                 ELSE paramSpec
                    paramRegex == IF colonIdx # 0
                                  THEN SubSeq(paramSpec, colonIdx + 1, Len(paramSpec))
                                  ELSE DefaultParamRegex
                IN parseFromDropBrace(pattern, end + 1, Append(toks, Grp(paramRegex)),
                                      Append(names, paramName))
    ELSE parseFromDropBrace(pattern, i + 1, Append(toks, Lit(pattern[i])), names)

RECURSIVE parseFrom(_, _, _, _)
parseFrom(pattern, i, toks, names) ==
    IF i > Len(pattern) THEN [regex |-> toks, paramNames |-> names]
    ELSE IF pattern[i] = "{" THEN
        LET rest == SubSeq(pattern, i, Len(pattern))
            rel  == IndexOf(rest, "}")
        IN IF rel = 0
           THEN parseFrom(pattern, i + 1, Append(toks, Lit(pattern[i])), names)
           ELSE LET end       == rel + i - 1
                    paramSpec == SubSeq(pattern, i + 1, end - 1)
                    colonIdx  == IndexOf(paramSpec, ":")
                    paramName == IF colonIdx # 0
                                 THEN SubSeq(paramSpec, 1, colonIdx - 1)
                                 ELSE paramSpec
                    paramRegex == IF colonIdx # 0
                                  THEN SubSeq(paramSpec, colonIdx + 1, Len(paramSpec))
                                  ELSE DefaultParamRegex
                IN parseFrom(pattern, end + 1, Append(toks, Grp(paramRegex)),
                             Append(names, paramName))
    ELSE parseFrom(pattern, i + 1, Append(toks, Lit(pattern[i])), names)

parsePattern(pattern) ==
    LET trimmed == TrimSuffixSlash(pattern)
        p       == IF trimmed = <<>> THEN <<"/">> ELSE trimmed
    IN parseFrom(p, 1, <<>>, <<>>)

\* ------------------------------------------------------------------------
\* The regular expressions a constraint may hold in this model: one atom
\* ("." , "[^/]", "[0-9]" or a plain character) followed by "+", "*" or
\* nothing, the whole possibly in parentheses, which regexp counts as a
\* capture group of its own. Go's regexp is leftmost-first with greedy
\* repetition.
\* ------------------------------------------------------------------------

Digits == {"0", "1", "2", "3", "4", "5", "6", "7", "8", "9"}

\* the constraint is "(" ... ")"
Parenthesised(re) == Len(re) >= 2 /\ re[1] = "(" /\ re[Len(re)] = ")"

\* the constraint without its parentheses
Inner(re) == IF Parenthesised(re) THEN SubSeq(re, 2, Len(re) - 1) ELSE re

HasQuant(re) == Len(re) > 0 /\ re[Len(re)] \in {"+", "*"}

Atom(re) == IF HasQuant(re) THEN SubSeq(re, 1, Len(re) - 1) ELSE re

MinRep(re) == IF re = <<>> THEN 0 ELSE IF re[Len(re)] = "*" THEN 0 ELSE 1

InClass(re, ch) ==
    LET a == Atom(re)
    IN CASE a = <<".">>                          -> TRUE
         [] a = <<"[", "^", "/", "]">>           -> ch # "/"
         [] a = <<"[", "0", "-", "9", "]">>      -> ch \in Digits
         [] OTHER                                -> Len(a) = 1 /\ ch = a[1]

NoMatch == [ok |-> FALSE, caps |-> <<>>]

\* characters that are not a regular expression by themselves: regexp
\* reports a missing closing bracket or parenthesis, an unexpected ")", a
\* missing argument of a repetition or a trailing backslash
NotAnAtom == {"[", "(", ")", "*", "+", "?", "\\"}

\* regexp.Compile accepts the constraint re inside a capture group
CompilesRegex(re) ==
    LET a == Atom(Inner(re))
    IN \/ Inner(re) = <<>>
       \/ a \in {<<".">>, <<"[", "^", "/", "]">>, <<"[", "0", "-", "9", "]">>}
       \/ Len(a) = 1 /\ a[1] \notin NotAnAtom

\* regexp.MustCompile(regexPattern) returns; it panics otherwise
MustCompile(toks) ==
    \A k \in 1..Len(toks) : toks[k].t = "grp" => CompilesRegex(toks[k].re)

\* regexp.FindStringSubmatch of ^ tokens /?$ from token ti and position pi;
\* caps are the submatches of the groups, in group order
RECURSIVE MatchFrom(_, _, _, _)
MatchFrom(toks, ti, path, pi) ==
    IF ti > Len(toks) THEN
        IF pi = Len(path) + 1 \/ (pi = Len(path) /\ path[pi] = "/")
        THEN [ok |-> TRUE, caps |-> <<>>]
        ELSE NoMatch
    ELSE IF toks[ti].t = "lit" THEN
        IF pi <= Len(path) /\ path[pi] = toks[ti].c
        THEN MatchFrom(toks, ti + 1, path, pi + 1)
        ELSE NoMatch
    ELSE
        LET re     == Inner(toks[ti].re)
            avail  == Len(path) - pi + 1
            maxRep == IF HasQuant(re) THEN avail
                      ELSE IF re = <<>> THEN 0 ELSE 1
            lens   == {n \in MinRep(re)..maxRep :
                          /\ n <= avail
                          /\ \A k \in pi..(pi + n - 1) : InClass(re, path[k])
                          /\ MatchFrom(toks, ti + 1, path, pi + n).ok}
        IN IF lens = {} THEN NoMatch
           ELSE LET n == Max(lens)
                    sub == SubSeq(path, pi, pi + n - 1)
                IN [ok   |-> TRUE,
                    caps |-> <<sub>>
                             \o (IF Parenthesised(toks[ti].re) THEN <<sub>> ELSE <<>>)
                             \o MatchFrom(toks, ti + 1, path, pi + n).caps]

EmptyMap == <<>>

\* Route.match: ok is "params != nil"; matches has 1 + Len(caps) entries,
\* the name at 0-based index i = j - 1 takes matches[i+1] when i+1 < len(matches),
\* and a later placeholder of the same name overwrites an earlier one
match(route, path) ==
    LET m == MatchFrom(route.regex, 1, path, 1)
    IN IF ~m.ok THEN [ok |-> FALSE, params |-> EmptyMap]
       ELSE LET idx == {j \in 1..Len(route.paramNames) : (j - 1) + 1 < Len(m.caps) + 1}
                dom == {route.paramNames[i] : i \in idx}
            IN [ok     |-> TRUE,
                params |-> [n \in dom |->
                              m.caps[Max({i \in idx : route.paramNames[i] = n})]]]

\* Router.find: scan in registration order; route is the index of the route
\* returned (0 for nil)
RECURSIVE findFrom(_, _, _, _, _)
findFrom(rs, i, method, path, pathMatched) ==
    IF i > Len(rs) THEN [route |-> 0, params |-> EmptyMap, pathMatched |-> pathMatched]
    ELSE LET r == match(rs[i], path)
         IN IF r.ok
            THEN IF rs[i].method = method
                 THEN [route |-> i, params |-> r.params, pathMatched |-> FALSE]
                 ELSE findFrom(rs, i + 1, method, path, TRUE)
            ELSE findFrom(rs, i + 1, method, path, pathMatched)

\* a lookup that lets the route registered last win
findLast(rs, method, path) ==
    LET acc  == {i \in 1..Len(rs) : match(rs[i], path).ok}
        both == {i \in acc : rs[i].method = method}
    IN IF both = {}
       THEN [route |-> 0, params |-> EmptyMap, pathMatched |-> acc # {}]
       ELSE [route |-> Max(both), params |-> match(rs[Max(both)], path).params,
             pathMatched |-> FALSE]

find(rs, method, path) == findFrom(rs, 1, method, path, FALSE)

\* the Route built by Router.Handle
NewRoute(method, pattern, h, mws) ==
    LET pp == parsePattern(pattern)
    IN [method |-> method, pattern |-> pattern, handler |-> h, middleware |-> mws,
        regex |-> pp.regex, paramNames |-> pp.paramNames]

\* ------------------------------------------------------------------------
\* Errors (errors.go) and response output (response.go)
\* ------------------------------------------------------------------------

\* an error value: kind "nil" is the nil error, "http" a *HTTPError with Code,
\* Message and Err (cause = "" when Err is nil), "plain" any other error
\* whose Error() text is msg
NilErr == [kind |-> "nil", code |-> 0, msg |-> "", cause |-> ""]

NewHTTPError(code, message) == [kind |-> "http", code |-> code, msg |-> message, cause |-> ""]

WrapError(code, message, err) == [kind |-> "http", code |-> code, msg |-> message, cause |-> err]

PlainError(text) == [kind |-> "plain", code |-> 0, msg |-> text, cause |-> ""]

StatusNotFound == 404

StatusMethodNotAllowed == 405

StatusInternalServerError == 500

StatusUnauthorized == 401

StatusOK == 200

StatusBadRequest == 400

StatusText500 == "Internal Server Error"

\* one call sequence SetHeader / WriteHeader(code) / Encode or Write on the
\* http.ResponseWriter; debug is the "debug" member of the JSON error body
Body(code, message, dbg) == [code |-> code, message |-> message, debug |-> dbg]

\* a JSON that writes without markWritten
JSONUnmarked(c, w, body) == [c |-> c, w |-> Append(w, body)]

\* Context.JSON (and String, HTML, Blob): write, then markWritten; the
\* helpers do not consult the response flag. c is a Context record, w the
\* calls made so far on c.Writer
JSON(c, w, body) == [c |-> [c EXCEPT !.response = TRUE], w |-> Append(w, body)]

\* Context.Error
Error(c, w, code, message) == JSON(c, w, Body(code, message, ""))

\* Context.InternalError
InternalError(c, w, msg) ==
    Error(c, w, StatusInternalServerError, IF msg = "" THEN StatusText500 ELSE msg)

\* Context.NotFound (the status text is unused: the router passes a message)
NotFound(c, w, msg) ==
    Error(c, w, StatusNotFound, IF msg = "" THEN "Not Found" ELSE msg)

\* Context.Unauthorized
Unauthorized(c, w, msg) ==
    Error(c, w, StatusUnauthorized, IF msg = "" THEN "Unauthorized" ELSE msg)

\* an error translation without the IsWritten guard
handleErrorUnguarded(dbg, c, w, err) ==
    IF err.kind = "http"
    THEN Error(c, w, err.code, err.msg)
    ELSE InternalError(c, w, "")

\* an error translation that exposes the cause whatever the debug flag
handleErrorLeaky(dbg, c, w, err) ==
    IF c.response THEN [c |-> c, w |-> w]
    ELSE IF err.kind = "http" THEN
        IF err.cause # ""
        THEN JSON(c, w, Body(err.code, err.msg, err.cause))
        ELSE Error(c, w, err.code, err.msg)
    ELSE JSON(c, w, Body(StatusInternalServerError, StatusText500, err.msg))

\* App.handleError
handleError(dbg, c, w, err) ==
    IF c.response THEN [c |-> c, w |-> w]
    ELSE IF err.kind = "http" THEN
        IF dbg /\ err.cause # ""
        THEN JSON(c, w, Body(err.code, err.msg, err.cause))
        ELSE Error(c, w, err.code, err.msg)
    ELSE IF dbg
        THEN JSON(c, w, Body(StatusInternalServerError, StatusText500, err.msg))
        ELSE InternalError(c, w, "")

\* middleware.sendDefaultPanicResponse
sendDefaultPanicResponse(c, w) ==
    IF c.response THEN [c |-> c, w |-> w]
    ELSE JSON(c, w, Body(StatusInternalServerError, StatusText500, ""))

\* ------------------------------------------------------------------------
\* Context (context.go)
\* ------------------------------------------------------------------------

NoReq == [method |-> "", path |-> <<>>]

\* newContext, and the New function of App.contextPool; Writer is the
\* process whose response writer is attached (0: none)
newContext(w, r) ==
    [Request |-> r, Writer |-> w, params |-> EmptyMap, store |-> EmptyMap, response |-> FALSE]

\* a reset that forgets to replace the store
resetKeepStore(c, w, r) ==
    [c EXCEPT !.Request = r, !.Writer = w, !.params = EmptyMap, !.response = FALSE]

\* Context.reset
reset(c, w, r) ==
    [c EXCEPT !.Request = r, !.Writer = w, !.params = EmptyMap,
              !.store = EmptyMap, !.response = FALSE]

\* a SetParams that leaves the map of the context as it is
SetParamsIgnored(c, params) == c

\* Context.SetParams
SetParams(c, params) == [c EXCEPT !.params = params]

\* Context.Set
Set(c, key, value) ==
    [c EXCEPT !.store = [k \in (DOMAIN c.store) \cup {key} |->
                            IF k = key THEN value ELSE c.store[k]]]

\* ------------------------------------------------------------------------
\* Middleware composition (middleware.go). A HandlerFunc value is the list
\* of middleware wrapped around a function, outermost first: m(h) puts m in
\* front of the list of h.
\* ------------------------------------------------------------------------

Fn(id) == [mws |-> <<>>, fn |-> id]

\* middleware[i](h), for the middleware entry m
Apply(m, h) == [mws |-> <<m>> \o h.mws, fn |-> h.fn]

\* a loop that wraps from the first middleware to the last, leaving the
\* last one outermost
WrapFromForward(h, mws, i) ==
    [mws |-> [k \in 1..i |-> mws[i + 1 - k]] \o h.mws, fn |-> h.fn]

\* for i := len(middleware) - 1; i >= 0; i-- { h = middleware[i](h) }
RECURSIVE WrapFrom(_, _, _)
WrapFrom(h, mws, i) ==
    IF i < 1 THEN h ELSE WrapFrom(Apply(mws[i], h), mws, i - 1)

\* WrapMiddleware(h, middleware...)
WrapMiddleware(h, mws) == WrapFrom(h, mws, Len(mws))

\* Chain(middleware...)(next)
Chain(mws, next) == WrapFrom(next, mws, Len(mws))

\* the entries of a middleware list, tagged with the layer that installed
\* them ("g" App.Use, "r" route, "c" a direct Chain / WrapMiddleware call)
Tagged(mws, layer) == [i \in 1..Len(mws) |-> [mw |-> mws[i], layer |-> layer]]

\* ------------------------------------------------------------------------
\* Inputs
\* ------------------------------------------------------------------------

Procs == {1, 2}

Methods == {"GET", "POST"}

MiddlewareRecovery == "recovery"

\* middleware an application installs with App.Use
GlobalMws == {"mw1", MiddlewareRecovery}

Handlers == {"h1", "h2"}

PatAX == <<"/", "a", "/", "{", "x", "}">>

PatAFixed == <<"/", "a", "/", "f", "i", "x", "e", "d">>

PatR == <<"/", "r">>

\* "/a/{x:[}": the constraint is not a regular expression
PatBad == <<"/", "a", "/", "{", "x", ":", "[", "}">>

PathA1 == <<"/", "a", "/", "1">>

PathQ == <<"/", "q">>

\* what a handler body may do: store a value, call a response helper
\* writes times, then return ret or panic
Behaviour(set, writes, ret, panics) ==
    [set |-> set, writes |-> writes, ret |-> ret, panics |-> panics]

HandlerBehaviours ==
    << Behaviour(TRUE, 1, NilErr, FALSE),
      Behaviour(FALSE, 0, NilErr, FALSE),
      Behaviour(FALSE, 0, NewHTTPError(StatusUnauthorized, "access denied"), FALSE),
      Behaviour(FALSE, 0, WrapError(StatusBadRequest, "invalid JSON", "cause"), FALSE),
      Behaviour(FALSE, 0, PlainError("boom"), FALSE),
      Behaviour(FALSE, 1, PlainError("boom"), FALSE),
      Behaviour(TRUE, 2, NilErr, FALSE),
      Behaviour(FALSE, 0, NilErr, TRUE) >>

\* ------------------------------------------------------------------------
\* State
\* ------------------------------------------------------------------------

VARIABLES
    routes,      \* Router.routes
    middleware,  \* App.middleware
    debug,       \* App.debug
    pool,        \* the idle instances held by App.contextPool
    ctxs,        \* every Context allocated so far, by instance number
    nreq,        \* requests started so far
    pc,          \* position of each serving goroutine
    via,         \* entry point of its current request: "app", "router", "chain"
    cx,          \* the Context instance it uses (0: none)
    cur,         \* the HandlerFunc it is about to call
    stack,       \* middleware whose next(c) call has not returned yet
    ret,         \* the error returned by the call that returned last
    looked,      \* route, params, pathMatched of Router.handleRequest
    out,         \* calls made on the goroutine's http.ResponseWriter
    trace,       \* events of the current request
    dirty,       \* the instance was taken from the pool holding a previous request's data
    req,         \* the *http.Request the goroutine was called with
    given,       \* how, middleware and handler of a directly composed chain
    groups,      \* every RouteGroup created so far
    heap,        \* the backing arrays of the groups' middleware slices
    reg,         \* the latest call made on a RouteGroup, with its arguments
    mu,          \* Router.mu: the writer holding it and the readers sharing it
    torn,        \* an append to Router.routes has begun and not yet stored the slice
    pending,     \* the Route a goroutine inside Router.Handle is building
    seen,        \* the Router.routes slice a goroutine inside Router.find read
    calls,       \* every call made on a RouteGroup so far, with its arguments
    derived,     \* the latest Context.WithContext call of each goroutine
    factories,   \* Container.factories
    instances,   \* Container.instances
    cmu,         \* Container.mu
    cstack,      \* the Container.Get calls of each goroutine that have not returned
    got,         \* what the Container calls of each goroutine returned
    clog         \* factory invocations, Reset and Clear calls, in order

vars == <<routes, middleware, debug, pool, ctxs, nreq, pc, via, cx, cur, stack,
          ret, looked, out, trace, dirty, req, given,
          groups, heap, reg, mu, torn, pending, seen,
          calls, derived, factories, instances, cmu, cstack, got, clog>>

\* the state of route groups and of the router's lock, which serving a
\* request through an atomic lookup leaves alone
grpVars == <<groups, heap, reg, calls>>

lockVars == <<mu, torn, pending, seen>>

\* the state of the Container (container.go), which the dispatcher never
\* touches
conVars == <<factories, instances, cmu, cstack, got, clog>>

regVars == <<grpVars, lockVars, conVars, derived>>

cfgVars == <<routes, middleware, debug>>

Resting == {"idle", "done", "aborted"}

InFlight(p) == pc[p] \notin Resting

NoLookup == [route |-> 0, params |-> EmptyMap, pathMatched |-> FALSE]

NoChain == [how |-> "", mws |-> <<>>, h |-> ""]

Event(e, id, layer) == [e |-> e, id |-> id, layer |-> layer]

\* no call on a group yet
NoCall == [n |-> 0, op |-> "", g |-> 0, mws |-> <<>>, pat |-> <<>>]

\* no WithContext call yet
NoDerived == [n |-> 0, recv |-> 0, ctx |-> "", ret |-> 0]

\* sync.RWMutex, unlocked
Unlocked == [writer |-> 0, readers |-> {}]

\* no Route under construction
NoRoute == [method |-> "", pattern |-> <<>>, handler |-> "", middleware |-> <<>>,
            regex |-> <<>>, paramNames |-> <<>>]

\* NewRouter, New: everything but the debug flag and the request a caller
\* is about to make
InitRest ==
    /\ routes = <<>>
    /\ middleware = <<>>
    /\ pool = {}
    /\ ctxs = <<>>
    /\ nreq = 0
    /\ pc = [p \in Procs |-> "idle"]
    /\ via = [p \in Procs |-> "app"]
    /\ cx = [p \in Procs |-> 0]
    /\ cur = [p \in Procs |-> Fn("")]
    /\ stack = [p \in Procs |-> <<>>]
    /\ ret = [p \in Procs |-> NilErr]
    /\ looked = [p \in Procs |-> NoLookup]
    /\ out = [p \in Procs |-> <<>>]
    /\ trace = [p \in Procs |-> <<>>]
    /\ dirty = [p \in Procs |-> FALSE]
    /\ given = [p \in Procs |-> NoChain]
    /\ groups = <<>>
    /\ heap = <<>>
    /\ reg = NoCall
    /\ mu = Unlocked
    /\ torn = FALSE
    /\ pending = [p \in Procs |-> NoRoute]
    /\ seen = [p \in Procs |-> <<>>]
    /\ calls = <<>>
    /\ derived = [p \in Procs |-> NoDerived]
    /\ factories = EmptyMap
    /\ instances = EmptyMap
    /\ cmu = Unlocked
    /\ cstack = [p \in Procs |-> <<>>]
    /\ got = [p \in Procs |-> <<>>]
    /\ clog = <<>>

Init ==
    /\ debug \in BOOLEAN
    /\ req = [p \in Procs |-> NoReq]
    /\ InitRest

\* ------------------------------------------------------------------------
\* Configuration
\* ------------------------------------------------------------------------

\* App.Use; the middleware list is not synchronised, it is filled before the
\* server starts
Use(m) ==
    /\ nreq = 0
    /\ Len(middleware) < MaxGlobalMw
    /\ middleware' = Append(middleware, m)
    /\ UNCHANGED <<routes, debug, pool, ctxs, nreq, pc, via, cx, cur, stack,
                   ret, looked, out, trace, dirty, req, given>>
    /\ UNCHANGED regVars

\* a registration that skips a method and pattern the table already has
AppendRouteUnique(rs, route) ==
    IF \E i \in 1..Len(rs) : rs[i].method = route.method /\ rs[i].pattern = route.pattern
    THEN rs ELSE Append(rs, route)

\* r.routes = append(r.routes, route)
AppendRoute(rs, route) == Append(rs, route)

\* Router.Handle, when parsePattern returns
Handle(method, pattern, h, mws) ==
    /\ MustCompile(parsePattern(pattern).regex)
    /\ routes' = AppendRoute(routes, NewRoute(method, pattern, h, mws))
    /\ UNCHANGED <<middleware, debug, pool, ctxs, nreq, pc, via, cx, cur, stack,
                   ret, looked, out, trace, dirty, req, given>>

\* ------------------------------------------------------------------------
\* Route groups (group.go). A []MiddlewareFunc is a slice header: the index
\* of its backing array in the heap (0 for nil), its length and its
\* capacity; an array is a sequence of cap entries, "" in a slot never
\* written.
\* ------------------------------------------------------------------------

NilSlice == [arr |-> 0, len |-> 0, cap |-> 0]

\* the elements of slice sl
Elems(hp, sl) == [k \in 1..sl.len |-> hp[sl.arr][k]]

\* the slice of a variadic parameter called with the arguments xs: nil when
\* there is none, otherwise a new array holding exactly xs
Variadic(hp, xs) ==
    IF xs = <<>> THEN [heap |-> hp, slice |-> NilSlice]
    ELSE [heap |-> Append(hp, xs),
          slice |-> [arr |-> Len(hp) + 1, len |-> Len(xs), cap |-> Len(xs)]]

\* a copy that puts the second list in front of the first
MakeCopySwapped(hp, a, b) ==
    [heap |-> Append(hp, b \o a),
     slice |-> [arr |-> Len(hp) + 1, len |-> Len(a) + Len(b), cap |-> Len(a) + Len(b)]]

\* s := make([]MiddlewareFunc, len(a)+len(b)); copy(s, a); copy(s[len(a):], b)
MakeCopy(hp, a, b) ==
    [heap |-> Append(hp, a \o b),
     slice |-> [arr |-> Len(hp) + 1, len |-> Len(a) + Len(b), cap |-> Len(a) + Len(b)]]

\* append(sl, xs...): in place when the capacity suffices, otherwise into a
\* new array with room for the result and spare more elements
AppendSlice(hp, sl, xs, spare) ==
    IF xs = <<>> THEN [heap |-> hp, slice |-> sl]
    ELSE IF sl.len + Len(xs) <= sl.cap
    THEN [heap |-> [hp EXCEPT ![sl.arr] =
                      [k \in 1..sl.cap |->
                          IF k > sl.len /\ k <= sl.len + Len(xs)
                          THEN xs[k - sl.len] ELSE hp[sl.arr][k]]],
          slice |-> [sl EXCEPT !.len = sl.len + Len(xs)]]
    ELSE LET n == sl.len + Len(xs)
         IN [heap |-> Append(hp, [k \in 1..(n + spare) |->
                                     IF k <= sl.len THEN hp[sl.arr][k]
                                     ELSE IF k <= n THEN xs[k - sl.len] ELSE ""]),
             slice |-> [arr |-> Len(hp) + 1, len |-> n, cap |-> n + spare]]

\* the middleware list of group g
GroupMiddleware(g) == Elems(heap, groups[g].middleware)

\* NewRouteGroup(router, prefix, middleware...), also App.Group
NewRouteGroup(prefix, mws) ==
    /\ nreq = 0
    /\ LET v == Variadic(heap, mws)
       IN /\ heap' = v.heap
          /\ groups' = Append(groups, [prefix |-> TrimSuffixSlash(prefix),
                                       middleware |-> v.slice])
    /\ reg' = [n |-> reg.n + 1, op |-> "new", g |-> 0, mws |-> mws, pat |-> prefix]
    /\ calls' = Append(calls, reg')
    /\ UNCHANGED <<routes, middleware, debug, pool, ctxs, nreq, pc, via, cx, cur, stack,
                   ret, looked, out, trace, dirty, req, given, lockVars, conVars, derived>>

\* the caller's s := make([]MiddlewareFunc, len(xs), len(xs)+spare) holding xs,
\* before it passes s... to NewRouteGroup or App.Group
MakeSlice(xs, spare) ==
    /\ nreq = 0
    /\ heap' = Append(heap, [k \in 1..(Len(xs) + spare) |-> IF k <= Len(xs) THEN xs[k] ELSE ""])
    /\ UNCHANGED <<groups, reg, calls, routes, middleware, debug, pool, ctxs, nreq, pc, via,
                   cx, cur, stack, ret, looked, out, trace, dirty, req, given, lockVars,
                   conVars, derived>>

\* NewRouteGroup(router, prefix, s...): the variadic parameter is the
\* caller's slice sl itself, and the group stores it
NewRouteGroupSpread(prefix, sl) ==
    /\ nreq = 0
    /\ groups' = Append(groups, [prefix |-> TrimSuffixSlash(prefix), middleware |-> sl])
    /\ reg' = [n |-> reg.n + 1, op |-> "new", g |-> 0, mws |-> Elems(heap, sl), pat |-> prefix]
    /\ calls' = Append(calls, reg')
    /\ UNCHANGED <<heap, routes, middleware, debug, pool, ctxs, nreq, pc, via, cx, cur, stack,
                   ret, looked, out, trace, dirty, req, given, lockVars, conVars, derived>>

\* RouteGroup.Use
GroupUse(g, mws, spare) ==
    /\ nreq = 0
    /\ LET a == AppendSlice(heap, groups[g].middleware, mws, spare)
       IN /\ heap' = a.heap
          /\ groups' = [groups EXCEPT ![g].middleware = a.slice]
    /\ reg' = [n |-> reg.n + 1, op |-> "use", g |-> g, mws |-> mws, pat |-> <<>>]
    /\ calls' = Append(calls, reg')
    /\ UNCHANGED <<routes, middleware, debug, pool, ctxs, nreq, pc, via, cx, cur, stack,
                   ret, looked, out, trace, dirty, req, given, lockVars, conVars, derived>>

\* a Group that builds the child's list with append(g.middleware, mw...)
NestShared(hp, sl, mws) == AppendSlice(hp, sl, mws, 0)

\* RouteGroup.Group, the child's middleware: a new array holding the
\* parent's entries followed by mw
Nest(hp, sl, mws) == MakeCopy(hp, Elems(hp, sl), mws)

\* RouteGroup.Group
GroupGroup(g, prefix, mws) ==
    /\ nreq = 0
    /\ LET c == Nest(heap, groups[g].middleware, mws)
       IN /\ heap' = c.heap
          /\ groups' = Append(groups, [prefix |-> groups[g].prefix \o TrimSuffixSlash(prefix),
                                       middleware |-> c.slice])
    /\ reg' = [n |-> reg.n + 1, op |-> "group", g |-> g, mws |-> mws, pat |-> prefix]
    /\ calls' = Append(calls, reg')
    /\ UNCHANGED <<routes, middleware, debug, pool, ctxs, nreq, pc, via, cx, cur, stack,
                   ret, looked, out, trace, dirty, req, given, lockVars, conVars, derived>>

\* RouteGroup.handle (GET, POST, ...): allMiddleware is a new array that
\* only the Route refers to, so the Route holds its entries
GroupHandle(g, method, pattern, h, mws) ==
    /\ nreq = 0
    /\ LET all == MakeCopy(heap, GroupMiddleware(g), mws)
       IN /\ heap' = all.heap
          /\ MustCompile(parsePattern(groups[g].prefix \o pattern).regex)
          /\ routes' = AppendRoute(routes, NewRoute(method, groups[g].prefix \o pattern, h,
                                                    Elems(all.heap, all.slice)))
    /\ reg' = [n |-> reg.n + 1, op |-> "handle", g |-> g, mws |-> mws, pat |-> pattern]
    /\ calls' = Append(calls, reg')
    /\ UNCHANGED <<groups, middleware, debug, pool, ctxs, nreq, pc, via, cx, cur, stack,
                   ret, looked, out, trace, dirty, req, given, lockVars, conVars, derived>>

\* ------------------------------------------------------------------------
\* Router.mu (router.go): Router.Handle and Router.find statement by
\* statement. Elsewhere in this module Handle and the lookup are single
\* steps.
\* ------------------------------------------------------------------------

\* a lock that lets readers in whatever the writer does
CanRLockAlways(m) == TRUE

\* sync.RWMutex: RLock returns when no writer holds the lock
CanRLock(m) == m.writer = 0

\* sync.RWMutex: Lock returns when nobody holds the lock
CanLock(m) == m.writer = 0 /\ m.readers = {}

\* what a read of r.routes may yield: the slice, or, while an append is
\* storing the new slice, also a slice whose new length is already there
\* and whose new element is not (nil) or is
Observed(rs, tornNow, writing) ==
    IF tornNow THEN {rs, Append(rs, NoRoute), Append(rs, writing)} ELSE {rs}

lockFrame == <<middleware, debug, pool, ctxs, via, cx, cur, stack, ret, out, trace,
               dirty, given, grpVars, conVars, derived>>

\* Router.Handle: route := &Route{method, pattern, handler, middleware}
HandleBegin(p, method, pattern, h, mws) ==
    /\ pc[p] \in Resting
    /\ pending' = [pending EXCEPT ![p] =
                      [NoRoute EXCEPT !.method = method, !.pattern = pattern,
                                      !.handler = h, !.middleware = mws]]
    /\ pc' = [pc EXCEPT ![p] = "hBuilt"]
    /\ UNCHANGED <<routes, nreq, req, looked, mu, torn, seen, lockFrame>>

\* route.regex, route.paramNames = parsePattern(pattern); a panic of
\* regexp.MustCompile leaves Handle
HandleCompile(p) ==
    /\ pc[p] = "hBuilt"
    /\ IF MustCompile(parsePattern(pending[p].pattern).regex)
       THEN /\ pending' = [pending EXCEPT ![p] =
                              NewRoute(pending[p].method, pending[p].pattern,
                                       pending[p].handler, pending[p].middleware)]
            /\ pc' = [pc EXCEPT ![p] = "hCompiled"]
       ELSE /\ pending' = [pending EXCEPT ![p] = NoRoute]
            /\ pc' = [pc EXCEPT ![p] = "aborted"]
    /\ UNCHANGED <<routes, nreq, req, looked, mu, torn, seen, lockFrame>>

\* r.mu.Lock()
HandleLock(p) ==
    /\ pc[p] = "hCompiled"
    /\ CanLock(mu)
    /\ mu' = [mu EXCEPT !.writer = p]
    /\ pc' = [pc EXCEPT ![p] = "hLocked"]
    /\ UNCHANGED <<routes, nreq, req, looked, torn, pending, seen, lockFrame>>

\* r.routes = append(r.routes, route), until the first word of the slice
\* is stored
HandleAppend(p) ==
    /\ pc[p] = "hLocked"
    /\ torn' = TRUE
    /\ pc' = [pc EXCEPT ![p] = "hAppending"]
    /\ UNCHANGED <<routes, nreq, req, looked, mu, pending, seen, lockFrame>>

\* the rest of the assignment to r.routes
HandleStore(p) ==
    /\ pc[p] = "hAppending"
    /\ routes' = AppendRoute(routes, pending[p])
    /\ torn' = FALSE
    /\ pc' = [pc EXCEPT ![p] = "hStored"]
    /\ UNCHANGED <<nreq, req, looked, mu, pending, seen, lockFrame>>

\* the handler of goroutine p's request is inside a call of its own to
\* Router.Handle
InHandler(p) == stack[p] # <<>> /\ stack[p][Len(stack[p])].layer = "h"

\* r.mu.Unlock(), and Handle returns to a caller that is not a handler
HandleUnlock(p) ==
    /\ pc[p] = "hStored"
    /\ ~InHandler(p)
    /\ mu' = [mu EXCEPT !.writer = 0]
    /\ pending' = [pending EXCEPT ![p] = NoRoute]
    /\ pc' = [pc EXCEPT ![p] = "done"]
    /\ UNCHANGED <<routes, nreq, req, looked, torn, seen, lockFrame>>

\* the goroutine whose append is under way, if any, is building this Route
Writing ==
    IF \E q \in Procs : pc[q] = "hAppending"
    THEN pending[CHOOSE q \in Procs : pc[q] = "hAppending"]
    ELSE NoRoute

\* Router.find(method, path): r.mu.RLock()
FindRLock(p, r) ==
    /\ pc[p] \in Resting
    /\ CanRLock(mu)
    /\ mu' = [mu EXCEPT !.readers = mu.readers \cup {p}]
    /\ req' = [req EXCEPT ![p] = r]
    /\ looked' = [looked EXCEPT ![p] = NoLookup]
    /\ nreq' = nreq + 1
    /\ pc' = [pc EXCEPT ![p] = "fLocked"]
    /\ UNCHANGED <<routes, torn, pending, seen, lockFrame>>

\* for _, route := range r.routes: the range expression is read once
FindRange(p) ==
    /\ pc[p] = "fLocked"
    /\ \E rs \in Observed(routes, torn, Writing) : seen' = [seen EXCEPT ![p] = rs]
    /\ pc' = [pc EXCEPT ![p] = "fRanged"]
    /\ UNCHANGED <<routes, nreq, req, looked, mu, torn, pending, lockFrame>>

\* the loop of Router.find over the slice it read
FindScan(p) ==
    /\ pc[p] = "fRanged"
    /\ looked' = [looked EXCEPT ![p] = find(seen[p], req[p].method, req[p].path)]
    /\ pc' = [pc EXCEPT ![p] = "fScanned"]
    /\ UNCHANGED <<routes, nreq, req, mu, torn, pending, seen, lockFrame>>

\* the deferred r.mu.RUnlock()
FindRUnlock(p) ==
    /\ pc[p] = "fScanned"
    /\ mu' = [mu EXCEPT !.readers = mu.readers \ {p}]
    /\ pc' = [pc EXCEPT ![p] = "done"]
    /\ UNCHANGED <<routes, nreq, req, looked, torn, pending, seen, lockFrame>>

\* ------------------------------------------------------------------------
\* Container (container.go). A ServiceFactory is one of four kinds; Get is
\* modelled statement by statement, one frame per call that has not
\* returned, the innermost last.
\* ------------------------------------------------------------------------

\* a factory that returns a new value and no error
Plain == [kind |-> "plain", dep |-> ""]

\* a factory that returns an error
Failing == [kind |-> "fail", dep |-> ""]

\* a factory that calls c.Get(target) and builds its value from the result
Needs(target) == [kind |-> "needs", dep |-> target]

\* the factory Container.Alias registers: return cont.Get(target)
AliasOf(target) == [kind |-> "alias", dep |-> target]

Nil == [of |-> "", n |-> 0, from |-> <<>>]

\* the n-th value built, by the factory registered as name, from the values
\* in from
Value(name, n, from) == [of |-> name, n |-> n, from |-> from]

\* the pair (interface{}, error) a call returns
Ok(v) == [val |-> v, err |-> <<>>]

Err(e) == [val |-> Nil, err |-> e]

NoResult == Ok(Nil)

ConEvent(e, name) == [e |-> e, name |-> name]

\* factory invocations so far
Invocations(log) == Len(SelectSeq(log, LAMBDA ev : ev.e = "factory"))

\* calls made on the container so far
ConCalls(log) == Len(SelectSeq(log, LAMBDA ev : ev.e \notin {"factory", "store"}))

conFrame == <<routes, middleware, debug, pool, ctxs, nreq, pc, via, cx, cur, stack, ret,
              looked, out, trace, dirty, req, given, grpVars, lockVars, derived>>

\* Container.Register
Register(p, name, factory) ==
    /\ cstack[p] = <<>>
    /\ CanLock(cmu)
    /\ factories' = (name :> factory) @@ factories
    /\ clog' = Append(clog, ConEvent("register", name))
    /\ UNCHANGED <<instances, cmu, cstack, got, conFrame>>

\* Container.Alias
Alias(p, alias, target) == Register(p, alias, AliasOf(target))

\* Container.RegisterInstance
RegisterInstance(p, name, instance) ==
    /\ cstack[p] = <<>>
    /\ CanLock(cmu)
    /\ instances' = (name :> instance) @@ instances
    /\ clog' = Append(clog, ConEvent("instance", name))
    /\ UNCHANGED <<factories, cmu, cstack, got, conFrame>>

\* Container.Has, on the maps fs and is
HasIn(fs, is, name) == name \in DOMAIN is \/ name \in DOMAIN fs

\* Container.Has
Has(p, name) ==
    /\ cstack[p] = <<>>
    /\ CanRLock(cmu)
    /\ got' = [got EXCEPT ![p] = Append(@, [op |-> "has", name |-> name,
                                            ok |-> HasIn(factories, instances, name),
                                            val |-> Nil, err |-> <<>>])]
    /\ clog' = Append(clog, ConEvent("has", name))
    /\ UNCHANGED <<factories, instances, cmu, cstack, conFrame>>

\* a Reset that keeps the instances that have no factory
ResetKeepGiven(p) ==
    /\ cstack[p] = <<>>
    /\ CanLock(cmu)
    /\ instances' = [n \in DOMAIN instances \ DOMAIN factories |-> instances[n]]
    /\ clog' = Append(clog, ConEvent("reset", ""))
    /\ UNCHANGED <<factories, cmu, cstack, got, conFrame>>

\* Container.Reset
Reset(p) ==
    /\ cstack[p] = <<>>
    /\ CanLock(cmu)
    /\ instances' = EmptyMap
    /\ clog' = Append(clog, ConEvent("reset", ""))
    /\ UNCHANGED <<factories, cmu, cstack, got, conFrame>>

\* Container.Clear
Clear(p) ==
    /\ cstack[p] = <<>>
    /\ CanLock(cmu)
    /\ factories' = EmptyMap
    /\ instances' = EmptyMap
    /\ clog' = Append(clog, ConEvent("clear", ""))
    /\ UNCHANGED <<cmu, cstack, got, conFrame>>

\* the innermost Get call of goroutine p
Top(p) == cstack[p][Len(cstack[p])]

AtGet(p, where) == cstack[p] # <<>> /\ Top(p).pc = where

Frame(name) == [name |-> name, pc |-> "rlock", f |-> Plain, n |-> 0, res |-> NoResult]

\* what the factory f of name, invoked as the n-th, returns once its
\* c.Get(f.dep) has returned r
FactoryResult(f, name, n, r) ==
    IF f.kind = "alias" THEN r
    ELSE IF r.err # <<>> THEN Err(r.err)
    ELSE Ok(Value(name, n, <<r.val>>))

\* the innermost Get of p returns r: to its caller's result list, or into
\* the factory that called it
Return(p, r) ==
    LET rest == SubSeq(cstack[p], 1, Len(cstack[p]) - 1)
    IN IF rest = <<>>
       THEN /\ cstack' = [cstack EXCEPT ![p] = <<>>]
            /\ got' = [got EXCEPT ![p] = Append(@, [op |-> "get", name |-> Top(p).name,
                                                    ok |-> r.err = <<>>,
                                                    val |-> r.val, err |-> r.err])]
       ELSE LET caller == rest[Len(rest)]
            IN /\ cstack' = [cstack EXCEPT ![p] =
                                [rest EXCEPT ![Len(rest)] =
                                    [caller EXCEPT !.pc = "built",
                                                   !.res = FactoryResult(caller.f, caller.name,
                                                                         caller.n, r)]]]
               /\ got' = got

\* a goroutine calls c.Get(name)
GetCall(p, name) ==
    /\ cstack[p] = <<>>
    /\ cstack' = [cstack EXCEPT ![p] = <<Frame(name)>>]
    /\ clog' = Append(clog, ConEvent("get", name))
    /\ UNCHANGED <<factories, instances, cmu, got, conFrame>>

\* c.mu.RLock()
GetRLock(p) ==
    /\ AtGet(p, "rlock")
    /\ CanRLock(cmu)
    /\ cmu' = [cmu EXCEPT !.readers = cmu.readers \cup {p}]
    /\ cstack' = [cstack EXCEPT ![p][Len(cstack[p])].pc = "check"]
    /\ UNCHANGED <<factories, instances, got, clog, conFrame>>

\* if instance, ok := c.instances[name]; ok { RUnlock; return }; RUnlock
GetCheck(p) ==
    /\ AtGet(p, "check")
    /\ cmu' = [cmu EXCEPT !.readers = cmu.readers \ {p}]
    /\ IF Top(p).name \in DOMAIN instances
       THEN Return(p, Ok(instances[Top(p).name]))
       ELSE /\ cstack' = [cstack EXCEPT ![p][Len(cstack[p])].pc = "lock"]
            /\ got' = got
    /\ UNCHANGED <<factories, instances, clog, conFrame>>

\* c.mu.Lock(); defer c.mu.Unlock()
GetLock(p) ==
    /\ AtGet(p, "lock")
    /\ CanLock(cmu)
    /\ cmu' = [cmu EXCEPT !.writer = p]
    /\ cstack' = [cstack EXCEPT ![p][Len(cstack[p])].pc = "locked"]
    /\ UNCHANGED <<factories, instances, got, clog, conFrame>>

\* a Get that calls the factory without looking at c.instances again
GetLockedNoRecheck(p) ==
    /\ AtGet(p, "locked")
    /\ LET name == Top(p).name
           n    == Invocations(clog) + 1
       IN IF name \notin DOMAIN factories
          THEN /\ cmu' = [cmu EXCEPT !.writer = 0]
               /\ Return(p, Err(<<"service not found", name>>))
               /\ clog' = clog
          ELSE LET f == factories[name]
               IN /\ clog' = Append(clog, ConEvent("factory", name))
                  /\ cmu' = cmu
                  /\ got' = got
                  /\ cstack' = [cstack EXCEPT ![p] =
                        IF f.kind \in {"needs", "alias"}
                        THEN Append([@ EXCEPT ![Len(@)] = [@ EXCEPT !.pc = "factory", !.f = f,
                                                                    !.n = n]],
                                    Frame(f.dep))
                        ELSE [@ EXCEPT ![Len(@)] =
                                 [@ EXCEPT !.pc = "built", !.f = f, !.n = n,
                                           !.res = IF f.kind = "plain"
                                                   THEN Ok(Value(name, n, <<>>))
                                                   ELSE Err(<<"boom">>)]]]
    /\ UNCHANGED <<factories, instances, conFrame>>

\* the double check under the write lock, the look-up of the factory and
\* the call factory(c), up to the factory's return or its own c.Get
GetLocked(p) ==
    /\ AtGet(p, "locked")
    /\ LET name == Top(p).name
           n    == Invocations(clog) + 1
       IN IF name \in DOMAIN instances
          THEN /\ cmu' = [cmu EXCEPT !.writer = 0]
               /\ Return(p, Ok(instances[name]))
               /\ clog' = clog
          ELSE IF name \notin DOMAIN factories
          THEN /\ cmu' = [cmu EXCEPT !.writer = 0]
               /\ Return(p, Err(<<"service not found", name>>))
               /\ clog' = clog
          ELSE LET f == factories[name]
               IN /\ clog' = Append(clog, ConEvent("factory", name))
                  /\ cmu' = cmu
                  /\ got' = got
                  /\ cstack' = [cstack EXCEPT ![p] =
                        IF f.kind \in {"needs", "alias"}
                        THEN Append([@ EXCEPT ![Len(@)] = [@ EXCEPT !.pc = "factory", !.f = f,
                                                                    !.n = n]],
                                    Frame(f.dep))
                        ELSE [@ EXCEPT ![Len(@)] =
                                 [@ EXCEPT !.pc = "built", !.f = f, !.n = n,
                                           !.res = IF f.kind = "plain"
                                                   THEN Ok(Value(name, n, <<>>))
                                                   ELSE Err(<<"boom">>)]]]
    /\ UNCHANGED <<factories, instances, conFrame>>

\* after factory(c) returned: the error wrapped, or the instance cached and
\* returned; the deferred c.mu.Unlock()
GetStore(p) ==
    /\ AtGet(p, "built")
    /\ cmu' = [cmu EXCEPT !.writer = 0]
    /\ IF Top(p).res.err # <<>>
       THEN /\ Return(p, Err(<<"failed to create service", Top(p).name>> \o Top(p).res.err))
            /\ UNCHANGED <<instances, clog>>
       ELSE /\ instances' = (Top(p).name :> Top(p).res.val) @@ instances
            /\ clog' = Append(clog, ConEvent("store", Top(p).name))
            /\ Return(p, Top(p).res)
    /\ UNCHANGED <<factories, conFrame>>

\* ------------------------------------------------------------------------
\* Entry points
\* ------------------------------------------------------------------------

\* the per-request variables of process p at the start of a request that
\* uses instance ci and calls h
Start(p, v, ci, h, r, g) ==
    /\ nreq' = nreq + 1
    /\ req' = [req EXCEPT ![p] = r]
    /\ given' = [given EXCEPT ![p] = g]
    /\ pc' = [pc EXCEPT ![p] = "call"]
    /\ via' = [via EXCEPT ![p] = v]
    /\ cx' = [cx EXCEPT ![p] = ci]
    /\ cur' = [cur EXCEPT ![p] = h]
    /\ stack' = [stack EXCEPT ![p] = <<>>]
    /\ ret' = [ret EXCEPT ![p] = NilErr]
    /\ looked' = [looked EXCEPT ![p] = NoLookup]
    /\ out' = [out EXCEPT ![p] = <<>>]
    /\ trace' = [trace EXCEPT ![p] = <<>>]

\* sync.Pool.Get: the instances it may return, 0 standing for a call of New
PoolGet(pl) == pl \cup {0}

\* a pool whose Get hands out an instance and keeps it
PoolTakeKeep(pl, src) == pl

\* what is left in the pool once Get has returned src
PoolTake(pl, src) == pl \ {src}

\* sync.Pool.Put
PoolPut(pl, ci) == pl \cup {ci}

HoldsData(c) == c.response \/ c.store # EmptyMap \/ c.params # EmptyMap

\* a dispatcher that wraps the global middleware in the opposite order
GlobalChainReversed(mws) ==
    WrapFromForward(Fn("handleRequest"), Tagged(mws, "g"), Len(mws))

\* App.ServeHTTP, the loop that wraps router.handleRequest in the global
\* middleware, last added innermost
GlobalChain(mws) == WrapFrom(Fn("handleRequest"), Tagged(mws, "g"), Len(mws))

\* App.ServeHTTP up to the call of the composed handler: Get, reset, and the
\* loop that wraps router.handleRequest in the global middleware
AppServeHTTP(p, r) ==
    /\ pc[p] \in Resting
    /\ \E src \in PoolGet(pool) :
          LET ci == IF src = 0 THEN Len(ctxs) + 1 ELSE src
              c0 == IF src = 0 THEN newContext(0, NoReq) ELSE ctxs[src]
          IN /\ pool' = PoolTake(pool, src)
             /\ ctxs' = [i \in 1..Max({Len(ctxs), ci}) |->
                            IF i = ci THEN reset(c0, p, r) ELSE ctxs[i]]
             /\ dirty' = [dirty EXCEPT ![p] = src # 0 /\ HoldsData(c0)]
             /\ Start(p, "app", ci, GlobalChain(middleware), r, NoChain)
    /\ UNCHANGED cfgVars
    /\ UNCHANGED regVars

\* Router.ServeHTTP: a freshly allocated context, no pool, no global
\* middleware
RouterServeHTTP(p, r) ==
    /\ pc[p] \in Resting
    /\ ctxs' = Append(ctxs, newContext(p, r))
    /\ dirty' = [dirty EXCEPT ![p] = FALSE]
    /\ Start(p, "router", Len(ctxs) + 1, Fn("handleRequest"), r, NoChain)
    /\ UNCHANGED <<routes, middleware, debug, pool>>
    /\ UNCHANGED regVars

ChainReq == [method |-> "GET", path |-> <<"/", "t", "e", "s", "t">>]

\* a caller that composes a chain itself and calls it on a context of its
\* own: Chain(mws...)(h)(c) or WrapMiddleware(h, mws...)(c)
InvokeChained(p, how, mws, h) ==
    /\ pc[p] \in Resting
    /\ ctxs' = Append(ctxs, newContext(p, ChainReq))
    /\ dirty' = [dirty EXCEPT ![p] = FALSE]
    /\ Start(p, "chain", Len(ctxs) + 1,
             IF how = "Chain" THEN Chain(Tagged(mws, "c"), Fn(h))
                              ELSE WrapMiddleware(Fn(h), Tagged(mws, "c")),
             ChainReq, [how |-> how, mws |-> mws, h |-> h])
    /\ UNCHANGED <<routes, middleware, debug, pool>>
    /\ UNCHANGED regVars

\* http.Request.WithContext: a copy of r that carries ctx
RequestWithContext(r, ctx) == ("ctx" :> ctx) @@ r

\* http.Request.Context: the context the request carries, the background
\* context when it carries none
RequestContext(r) == IF "ctx" \in DOMAIN r THEN r["ctx"] ELSE "Background"

\* Context.WithContext, called by the middleware or handler that is about
\* to run: c.Request = c.Request.WithContext(ctx); return c
WithContext(p, ctx) ==
    /\ pc[p] = "call"
    /\ cx[p] # 0
    /\ derived[p].n < MaxWithContext
    /\ ctxs' = [ctxs EXCEPT ![cx[p]].Request = RequestWithContext(@, ctx)]
    /\ derived' = [derived EXCEPT ![p] = [n |-> @.n + 1, recv |-> cx[p], ctx |-> ctx,
                                          ret |-> cx[p]]]
    /\ UNCHANGED <<routes, middleware, debug, pool, nreq, pc, via, cx, cur, stack, ret,
                   looked, out, trace, dirty, req, given, grpVars, lockVars, conVars>>

\* ------------------------------------------------------------------------
\* Running a composed handler
\* ------------------------------------------------------------------------

\* the calls made so far on the writer attached to instance ci
W(ci) == out[ctxs[ci].Writer]

\* the effect of response helpers called through instance ci
Written(ci, res) ==
    /\ ctxs' = [ctxs EXCEPT ![ci] = res.c]
    /\ out' = [out EXCEPT ![ctxs[ci].Writer] = res.w]

Log(p, evs) == trace' = [trace EXCEPT ![p] = trace[p] \o evs]

\* a composition in which a middleware that returns without calling next
\* does not stop the rest of the chain
CallMwFallThrough(p) ==
    /\ pc[p] = "call"
    /\ cur[p].mws # <<>>
    /\ LET e == Head(cur[p].mws)
       IN \/ /\ stack' = [stack EXCEPT ![p] = Append(stack[p], e)]
             /\ Log(p, <<Event("pre", e.mw, e.layer)>>)
             /\ UNCHANGED <<ret, ctxs, out>>
          \/ /\ e.mw # MiddlewareRecovery
             /\ ret' = [ret EXCEPT ![p] = NewHTTPError(StatusUnauthorized, "access denied")]
             /\ Log(p, <<Event("pre", e.mw, e.layer), Event("short", e.mw, e.layer)>>)
             /\ UNCHANGED <<stack, ctxs, out>>
    /\ cur' = [cur EXCEPT ![p] = [mws |-> Tail(cur[p].mws), fn |-> cur[p].fn]]
    /\ UNCHANGED <<routes, middleware, debug, pool, nreq, pc, via, cx, looked, dirty, req, given>>
    /\ UNCHANGED regVars

\* a middleware is called: its pre-logic runs and it calls next; a
\* middleware other than Recovery may instead answer itself (Unauthorized)
\* or return an error, without calling next
CallMw(p) ==
    /\ pc[p] = "call"
    /\ cur[p].mws # <<>>
    /\ LET e == Head(cur[p].mws)
       IN \/ /\ stack' = [stack EXCEPT ![p] = Append(stack[p], e)]
             /\ cur' = [cur EXCEPT ![p] = [mws |-> Tail(cur[p].mws), fn |-> cur[p].fn]]
             /\ Log(p, <<Event("pre", e.mw, e.layer)>>)
             /\ UNCHANGED <<pc, ret, ctxs, out>>
          \/ /\ e.mw # MiddlewareRecovery
             /\ \E answer \in BOOLEAN :
                   /\ IF answer
                      THEN /\ Written(cx[p], Unauthorized(ctxs[cx[p]], W(cx[p]), "missing token"))
                           /\ ret' = [ret EXCEPT ![p] = NilErr]
                      ELSE /\ ret' = [ret EXCEPT ![p] =
                                         NewHTTPError(StatusUnauthorized, "access denied")]
                           /\ UNCHANGED <<ctxs, out>>
             /\ pc' = [pc EXCEPT ![p] = "ret"]
             /\ Log(p, <<Event("pre", e.mw, e.layer), Event("short", e.mw, e.layer)>>)
             /\ UNCHANGED <<stack, cur>>
    /\ UNCHANGED <<routes, middleware, debug, pool, nreq, via, cx, looked, dirty, req, given>>
    /\ UNCHANGED regVars

\* a dispatch that answers every failed lookup with the not-found handler
FailureHandlerNotFoundOnly(pathMatched) == Fn("notFound")

\* Router.handleRequest, route == nil: the handler it returns the result of
FailureHandler(pathMatched) ==
    IF pathMatched THEN Fn("methodNotAllowed") ELSE Fn("notFound")

\* Router.handleRequest up to the call it ends with: find, then either the
\* not-found / method-not-allowed handler or SetParams and the route's
\* middleware wrapped around the route's handler
Lookup(p) ==
    /\ pc[p] = "call"
    /\ cur[p] = Fn("handleRequest")
    /\ LET c == ctxs[cx[p]]
           f == find(routes, c.Request.method, c.Request.path)
       IN /\ looked' = [looked EXCEPT ![p] = f]
          /\ IF f.route = 0
             THEN /\ cur' = [cur EXCEPT ![p] = FailureHandler(f.pathMatched)]
                  /\ UNCHANGED ctxs
             ELSE /\ ctxs' = [ctxs EXCEPT ![cx[p]] = SetParams(c, f.params)]
                  /\ cur' = [cur EXCEPT ![p] =
                                WrapFrom(Fn(routes[f.route].handler),
                                         Tagged(routes[f.route].middleware, "r"),
                                         Len(routes[f.route].middleware))]
    /\ Log(p, <<Event("lookup", "", "")>>)
    /\ UNCHANGED <<routes, middleware, debug, pool, nreq, pc, via, cx, stack, ret,
                   out, dirty, req, given>>
    /\ UNCHANGED regVars

\* Router.notFound as set by NewRouter
CallNotFound(p) ==
    /\ pc[p] = "call"
    /\ cur[p] = Fn("notFound")
    /\ Written(cx[p], NotFound(ctxs[cx[p]], W(cx[p]), "route not found"))
    /\ ret' = [ret EXCEPT ![p] = NilErr]
    /\ pc' = [pc EXCEPT ![p] = "ret"]
    /\ Log(p, <<Event("fn", "notFound", "")>>)
    /\ UNCHANGED <<routes, middleware, debug, pool, nreq, via, cx, cur, stack,
                   looked, dirty, req, given>>
    /\ UNCHANGED regVars

\* Router.methodNotAllowed as set by NewRouter
CallMethodNotAllowed(p) ==
    /\ pc[p] = "call"
    /\ cur[p] = Fn("methodNotAllowed")
    /\ Written(cx[p], Error(ctxs[cx[p]], W(cx[p]), StatusMethodNotAllowed,
                            "method not allowed"))
    /\ ret' = [ret EXCEPT ![p] = NilErr]
    /\ pc' = [pc EXCEPT ![p] = "ret"]
    /\ Log(p, <<Event("fn", "methodNotAllowed", "")>>)
    /\ UNCHANGED <<routes, middleware, debug, pool, nreq, via, cx, cur, stack,
                   looked, dirty, req, given>>
    /\ UNCHANGED regVars

\* the context and writer calls after a handler body with behaviour b
HandlerBody(c, w, b) ==
    LET c1 == IF b.set THEN Set(c, "user", "john") ELSE c
        r0 == [c |-> c1, w |-> w]
        r1 == IF b.writes >= 1 THEN JSON(r0.c, r0.w, Body(StatusOK, "ok", "")) ELSE r0
        r2 == IF b.writes >= 2 THEN JSON(r1.c, r1.w, Body(StatusOK, "ok", "")) ELSE r1
    IN r2

\* a route's handler (or the terminal handler of a chain) runs, doing one
\* of the things in bs
CallHandler(p, bs) ==
    /\ pc[p] = "call"
    /\ cur[p].mws = <<>>
    /\ cur[p].fn \in Handlers
    /\ \E k \in 1..Len(bs) : LET b == bs[k] IN
          /\ Written(cx[p], HandlerBody(ctxs[cx[p]], W(cx[p]), b))
          /\ ret' = [ret EXCEPT ![p] = b.ret]
          /\ pc' = [pc EXCEPT ![p] = IF b.panics THEN "panic" ELSE "ret"]
    /\ Log(p, <<Event("fn", cur[p].fn, "")>>)
    /\ UNCHANGED <<routes, middleware, debug, pool, nreq, via, cx, cur, stack,
                   looked, dirty, req, given>>
    /\ UNCHANGED regVars

\* next(c) returns into the innermost waiting middleware: its post-logic
\* runs and it returns the error it received
ReturnMw(p) ==
    /\ pc[p] = "ret"
    /\ stack[p] # <<>>
    /\ LET e == stack[p][Len(stack[p])]
       IN Log(p, <<Event("post", e.mw, e.layer)>>)
    /\ stack' = [stack EXCEPT ![p] = SubSeq(stack[p], 1, Len(stack[p]) - 1)]
    /\ UNCHANGED <<routes, middleware, debug, pool, ctxs, nreq, pc, via, cx, cur,
                   ret, looked, out, dirty, req, given>>
    /\ UNCHANGED regVars

\* a panic unwinds to the innermost Recovery middleware, whose deferred
\* function answers 500 unless a response was written and which then
\* returns nil; without one the panic leaves the entry point
RecoveryFrames(p) == {k \in 1..Len(stack[p]) : stack[p][k].mw = MiddlewareRecovery}

Unwind(p) ==
    /\ pc[p] = "panic"
    /\ IF RecoveryFrames(p) # {}
       THEN LET k == Max(RecoveryFrames(p))
            IN /\ stack' = [stack EXCEPT ![p] = SubSeq(stack[p], 1, k - 1)]
               /\ Written(cx[p], sendDefaultPanicResponse(ctxs[cx[p]], W(cx[p])))
               /\ ret' = [ret EXCEPT ![p] = NilErr]
               /\ pc' = [pc EXCEPT ![p] = "ret"]
               /\ Log(p, <<Event("recover", MiddlewareRecovery, stack[p][k].layer)>>)
       ELSE /\ stack' = [stack EXCEPT ![p] = <<>>]
            /\ pc' = [pc EXCEPT ![p] = "aborted"]
            /\ Log(p, <<Event("abort", "", "")>>)
            /\ UNCHANGED <<ctxs, out, ret>>
    /\ UNCHANGED <<routes, middleware, debug, pool, nreq, via, cx, cur, looked, dirty, req, given>>
    /\ UNCHANGED regVars

\* App.ServeHTTP after the composed handler returned: handleError on a
\* non-nil error
Translate(p) ==
    /\ pc[p] = "ret"
    /\ stack[p] = <<>>
    /\ via[p] = "app"
    /\ IF ret[p] # NilErr
       THEN /\ Written(cx[p], handleError(debug, ctxs[cx[p]], W(cx[p]), ret[p]))
            /\ Log(p, <<Event("handleError", "", "")>>)
       ELSE UNCHANGED <<ctxs, out, trace>>
    /\ pc' = [pc EXCEPT ![p] = "put"]
    /\ UNCHANGED <<routes, middleware, debug, pool, nreq, via, cx, cur, stack, ret,
                   looked, dirty, req, given>>
    /\ UNCHANGED regVars

\* App.ServeHTTP, last statement: contextPool.Put(c)
Release(p) ==
    /\ pc[p] = "put"
    /\ pool' = PoolPut(pool, cx[p])
    /\ pc' = [pc EXCEPT ![p] = "done"]
    /\ Log(p, <<Event("put", "", "")>>)
    /\ UNCHANGED <<routes, middleware, debug, ctxs, nreq, via, cx, cur, stack, ret,
                   looked, out, dirty, req, given>>
    /\ UNCHANGED regVars

\* a Router.ServeHTTP that translates the error of the chain as
\* App.ServeHTTP does
ReturnDirectTranslated(p) ==
    /\ pc[p] = "ret"
    /\ stack[p] = <<>>
    /\ via[p] # "app"
    /\ IF ret[p] # NilErr
       THEN Written(cx[p], handleError(debug, ctxs[cx[p]], W(cx[p]), ret[p]))
       ELSE UNCHANGED <<ctxs, out>>
    /\ pc' = [pc EXCEPT ![p] = "done"]
    /\ UNCHANGED <<routes, middleware, debug, pool, nreq, via, cx, cur, stack,
                   ret, looked, trace, dirty, req, given>>
    /\ UNCHANGED regVars

\* Router.ServeHTTP, or a caller of a composed chain, after the handler
\* returned: the error is not looked at
ReturnDirect(p) ==
    /\ pc[p] = "ret"
    /\ stack[p] = <<>>
    /\ via[p] # "app"
    /\ pc' = [pc EXCEPT ![p] = "done"]
    /\ UNCHANGED <<routes, middleware, debug, pool, ctxs, nreq, via, cx, cur, stack,
                   ret, looked, out, trace, dirty, req, given>>
    /\ UNCHANGED regVars

\* the garbage collector may drop idle instances of a sync.Pool
PoolGC ==
    /\ \E ci \in pool : pool' = pool \ {ci}
    /\ UNCHANGED <<routes, middleware, debug, ctxs, nreq, pc, via, cx, cur, stack,
                   ret, looked, out, trace, dirty, req, given>>
    /\ UNCHANGED regVars

\* ------------------------------------------------------------------------
\* Specifications
\* ------------------------------------------------------------------------

\* Spec: one goroutine serving requests through App.ServeHTTP, after
\* App.Use and route registration
AppRequests == [method : Methods, path : {PathA1, PathQ}]

HandleApp ==
    /\ Len(routes) < MaxAppRoutes
    /\ \E mws \in {<<>>, <<"mw2">>} : Handle("GET", PatAX, "h1", mws)
    /\ UNCHANGED regVars

Next ==
    \/ \E m \in GlobalMws : Use(m)
    \/ HandleApp
    \/ \E r \in AppRequests : nreq < MaxReqs /\ AppServeHTTP(1, r)
    \/ CallMw(1)
    \/ Lookup(1)
    \/ CallNotFound(1)
    \/ CallMethodNotAllowed(1)
    \/ CallHandler(1, HandlerBehaviours)
    \/ ReturnMw(1)
    \/ Unwind(1)
    \/ Translate(1)
    \/ Release(1)

Spec == Init /\ [][Next]_vars

\* SpecPool: concurrent App.ServeHTTP calls sharing the context pool
PoolBehaviours ==
    << Behaviour(TRUE, 1, NilErr, FALSE),
      Behaviour(FALSE, 0, PlainError("boom"), FALSE),
      Behaviour(FALSE, 0, NilErr, TRUE) >>

\* Requests of the concurrent runs: one path, served (GET with a route),
\* 405 (POST with a route) or 404 (no route yet).
PoolRequests == [method : Methods, path : {PathA1}]

NextPool ==
    \/ HandleApp
    \/ \E p \in Procs, r \in PoolRequests : nreq < MaxPoolReqs /\ AppServeHTTP(p, r)
    \/ \E p \in Procs : CallMw(p)
    \/ \E p \in Procs : Lookup(p)
    \/ \E p \in Procs : CallNotFound(p)
    \/ \E p \in Procs : CallMethodNotAllowed(p)
    \/ \E p \in Procs : CallHandler(p, PoolBehaviours)
    \/ \E p \in Procs : ReturnMw(p)
    \/ \E p \in Procs : Unwind(p)
    \/ \E p \in Procs : Translate(p)
    \/ \E p \in Procs : Release(p)
    \/ PoolGC

SpecPool == Init /\ [][NextPool]_vars

\* SpecRouter: registrations and requests served by Router.ServeHTTP
RouterPatterns == {PatAX, PatAFixed, PatR}

RouterRequests == [method : Methods, path : {PatAFixed, PatR, PathQ}]

RouterBehaviours ==
    << Behaviour(TRUE, 1, NilErr, FALSE),
      Behaviour(FALSE, 0, NewHTTPError(StatusUnauthorized, "access denied"), FALSE) >>

HandleRouter ==
    /\ Len(routes) < MaxRoutes
    /\ \E m \in Methods, pat \in RouterPatterns : Handle(m, pat, "h1", <<>>)
    /\ UNCHANGED regVars

NextRouter ==
    \/ HandleRouter
    \/ \E r \in RouterRequests : nreq < MaxRouterReqs /\ RouterServeHTTP(1, r)
    \/ Lookup(1)
    \/ CallNotFound(1)
    \/ CallMethodNotAllowed(1)
    \/ CallHandler(1, RouterBehaviours)
    \/ ReturnDirect(1)

SpecRouter == Init /\ [][NextRouter]_vars

\* SpecChain: handlers composed with Chain or WrapMiddleware and called
ChainMws == {"mw1", "mw2", "mw3"}

RECURSIVE SeqsUpTo(_, _)
SeqsUpTo(S, n) ==
    IF n = 0 THEN {<<>>}
    ELSE LET shorter == SeqsUpTo(S, n - 1)
         IN shorter \cup {Append(q, x) : q \in shorter, x \in S}

NextChain ==
    \/ \E how \in {"Chain", "WrapMiddleware"}, mws \in SeqsUpTo(ChainMws, MaxChain) :
          nreq < MaxChainReqs /\ InvokeChained(1, how, mws, "h1")
    \/ CallMw(1)
    \/ CallHandler(1, RouterBehaviours)
    \/ ReturnMw(1)
    \/ ReturnDirect(1)

SpecChain == Init /\ [][NextChain]_vars

\* SpecGroup: route groups are created, extended and nested, routes are
\* registered through them, then a request is served by Router.ServeHTTP
PrefixApi == <<"/", "a", "p", "i">>

\* a prefix written without its leading separator
PrefixBare == <<"a", "p", "i">>

PrefixV1 == <<"/", "v", "1", "/">>

PatU == <<"/", "u">>

\* what append may leave as spare capacity in an array it allocates
Spares == {0, 1}

GroupRequests == {[method |-> "GET", path |-> PrefixApi \o PatU],
                  [method |-> "GET", path |-> PrefixApi \o <<"/", "v", "1">> \o PatU]}

GroupBehaviours == << Behaviour(TRUE, 1, NilErr, FALSE) >>

NextGroup ==
    \/ \E prefix \in {PrefixApi, PrefixBare}, mws \in {<<>>, <<"mw1">>} :
          Len(groups) = 0 /\ NewRouteGroup(prefix, mws)
    \/ \E g \in 1..Len(groups), spare \in Spares :
          reg.n < MaxGroupOps /\ GroupUse(g, <<"mw3">>, spare)
    \/ \E g \in 1..Len(groups), mws \in {<<>>, <<"mw2">>} :
          reg.n < MaxGroupOps /\ GroupGroup(g, PrefixV1, mws)
    \/ \E g \in 1..Len(groups), mws \in {<<>>, <<"mw4">>} :
          reg.n < MaxGroupOps /\ GroupHandle(g, "GET", PatU, "h1", mws)
    \/ \E r \in GroupRequests : nreq < MaxGroupReqs /\ RouterServeHTTP(1, r)
    \/ Lookup(1)
    \/ CallNotFound(1)
    \/ CallMw(1)
    \/ CallHandler(1, GroupBehaviours)
    \/ ReturnMw(1)
    \/ ReturnDirect(1)

\* the debug flag plays no part in Router.ServeHTTP
InitGroup == Init /\ ~debug

SpecGroup == InitGroup /\ [][NextGroup]_vars

\* SpecShare: two groups created from one slice of the caller, then extended
\* with Use, then routes registered through them and a request served
PrefixAdm == <<"/", "a", "d", "m">>

CommonMws == <<"mw1">>

\* the caller's slice: the first array of the heap, with the length it was
\* made with
CallerSlice == [arr |-> 1, len |-> Len(CommonMws), cap |-> Len(heap[1])]

ShareRequests == {[method |-> "GET", path |-> PrefixApi \o PatU],
                  [method |-> "GET", path |-> PrefixAdm \o PatU]}

NextShare ==
    \/ \E spare \in Spares : heap = <<>> /\ MakeSlice(CommonMws, spare)
    \/ /\ heap # <<>>
       /\ Len(groups) < 2
       /\ NewRouteGroupSpread(IF groups = <<>> THEN PrefixApi ELSE PrefixAdm, CallerSlice)
    \/ \E g \in 1..Len(groups), m \in {"mw3", "mw5"}, spare \in Spares :
          reg.n < MaxShareOps /\ GroupUse(g, <<m>>, spare)
    \/ \E g \in 1..Len(groups) :
          reg.n < MaxShareOps /\ GroupHandle(g, "GET", PatU, "h1", <<>>)
    \/ \E r \in ShareRequests : nreq < MaxGroupReqs /\ RouterServeHTTP(1, r)
    \/ Lookup(1)
    \/ CallNotFound(1)
    \/ CallMw(1)
    \/ CallHandler(1, GroupBehaviours)
    \/ ReturnMw(1)
    \/ ReturnDirect(1)

SpecShare == InitGroup /\ [][NextShare]_vars

\* SpecContainer: goroutine 1 fills and empties a Container while both
\* goroutines call Get
Names == {"config", "db", "alias"}

Registrations == {<<"config", Plain>>, <<"config", Failing>>, <<"db", Needs("config")>>}

\* a value made by the caller, not by a factory
Given0(name) == Value(name, 0, <<>>)

GetStep(p) ==
    \/ GetRLock(p)
    \/ GetCheck(p)
    \/ GetLock(p)
    \/ GetLocked(p)
    \/ GetStore(p)

NextContainer ==
    \/ \E r \in Registrations : ConCalls(clog) < MaxConOps /\ Register(1, r[1], r[2])
    \/ ConCalls(clog) < MaxConOps /\ Alias(1, "alias", "config")
    \/ ConCalls(clog) < MaxConOps /\ RegisterInstance(1, "config", Given0("config"))
    \/ ConCalls(clog) < MaxConOps /\ Reset(1)
    \/ ConCalls(clog) < MaxConOps /\ Clear(1)
    \/ \E p \in Procs, name \in Names : ConCalls(clog) < MaxConOps /\ GetCall(p, name)
    \/ \E p \in Procs : GetStep(p)

SpecContainer == InitGroup /\ [][NextContainer]_vars

\* every Get call that can take a step takes one
SpecContainerFair == SpecContainer /\ \A p \in Procs : WF_vars(GetStep(p))

\* SpecReset: one goroutine registers a factory and an instance, asks for
\* them and resets the Container
NextReset ==
    \/ ConCalls(clog) < MaxResetOps /\ Register(1, "config", Plain)
    \/ ConCalls(clog) < MaxResetOps /\ RegisterInstance(1, "val", Given0("val"))
    \/ \E name \in {"config", "val"} : ConCalls(clog) < MaxResetOps /\ Has(1, name)
    \/ ConCalls(clog) < MaxResetOps /\ Reset(1)
    \/ ConCalls(clog) < MaxResetOps /\ Clear(1)
    \/ \E name \in {"config", "val"} : ConCalls(clog) < MaxResetOps /\ GetCall(1, name)
    \/ GetStep(1)

SpecReset == InitGroup /\ [][NextReset]_vars

\* SpecContext: a request served by Router.ServeHTTP whose middleware and
\* handler derive contexts with WithContext
Contexts == {"ctx1", "ctx2"}

HandleContext ==
    /\ nreq = 0
    /\ Len(routes) < MaxMatchRoutes
    /\ \E mws \in {<<>>, <<"mw1">>} : Handle("GET", PatAX, "h1", mws)
    /\ UNCHANGED regVars

NextContext ==
    \/ HandleContext
    \/ \E path \in {PathA1, PathQ} :
          nreq < MaxMatchReqs /\ RouterServeHTTP(1, [method |-> "GET", path |-> path])
    \/ \E ctx \in Contexts : WithContext(1, ctx)
    \/ Lookup(1)
    \/ CallNotFound(1)
    \/ CallMw(1)
    \/ CallHandler(1, RouterBehaviours)
    \/ ReturnMw(1)
    \/ ReturnDirect(1)

SpecContext == InitGroup /\ [][NextContext]_vars

\* SpecLock: goroutines calling Router.Handle and Router.find at the same
\* time
Registering == {p \in Procs : pc[p] \in {"hBuilt", "hCompiled", "hLocked", "hAppending", "hStored"}}

\* Router.handleRequest, the call r.find(c.Method(), c.Path()): r.mu.RLock()
LookupRLock(p) ==
    /\ pc[p] = "call"
    /\ cur[p] = Fn("handleRequest")
    /\ CanRLock(mu)
    /\ mu' = [mu EXCEPT !.readers = mu.readers \cup {p}]
    /\ looked' = [looked EXCEPT ![p] = NoLookup]
    /\ pc' = [pc EXCEPT ![p] = "fLocked"]
    /\ UNCHANGED <<routes, nreq, req, torn, pending, seen, lockFrame>>

\* a handleRequest that keeps the read lock while the handler runs
LookupKeepRLock(p) ==
    /\ pc[p] = "fScanned"
    /\ cur[p] = Fn("handleRequest")
    /\ mu' = mu
    /\ LET c == ctxs[cx[p]]
           f == looked[p]
       IN IF f.route = 0
          THEN /\ cur' = [cur EXCEPT ![p] = FailureHandler(f.pathMatched)]
               /\ UNCHANGED ctxs
          ELSE /\ ctxs' = [ctxs EXCEPT ![cx[p]] = SetParams(c, f.params)]
               /\ cur' = [cur EXCEPT ![p] =
                             WrapFrom(Fn(seen[p][f.route].handler),
                                      Tagged(seen[p][f.route].middleware, "r"),
                                      Len(seen[p][f.route].middleware))]
    /\ Log(p, <<Event("lookup", "", "")>>)
    /\ pc' = [pc EXCEPT ![p] = "call"]
    /\ UNCHANGED <<routes, middleware, debug, pool, nreq, via, cx, stack, ret,
                   looked, out, dirty, req, given, torn, pending, seen,
                   grpVars, conVars, derived>>

\* find's deferred r.mu.RUnlock() and the rest of Router.handleRequest up
\* to the call it ends with, as in Lookup
LookupRUnlock(p) ==
    /\ pc[p] = "fScanned"
    /\ cur[p] = Fn("handleRequest")
    /\ mu' = [mu EXCEPT !.readers = mu.readers \ {p}]
    /\ LET c == ctxs[cx[p]]
           f == looked[p]
       IN IF f.route = 0
          THEN /\ cur' = [cur EXCEPT ![p] = FailureHandler(f.pathMatched)]
               /\ UNCHANGED ctxs
          ELSE /\ ctxs' = [ctxs EXCEPT ![cx[p]] = SetParams(c, f.params)]
               /\ cur' = [cur EXCEPT ![p] =
                             WrapFrom(Fn(seen[p][f.route].handler),
                                      Tagged(seen[p][f.route].middleware, "r"),
                                      Len(seen[p][f.route].middleware))]
    /\ Log(p, <<Event("lookup", "", "")>>)
    /\ pc' = [pc EXCEPT ![p] = "call"]
    /\ UNCHANGED <<routes, middleware, debug, pool, nreq, via, cx, stack, ret,
                   looked, out, dirty, req, given, torn, pending, seen,
                   grpVars, conVars, derived>>

\* a route's handler whose body registers a route on the router that is
\* serving it: the handler calls r.Handle(method, pattern, h)
CallHandlerRegister(p, method, pattern, h) ==
    /\ pc[p] = "call"
    /\ cur[p].mws = <<>>
    /\ cur[p].fn \in Handlers
    /\ MustCompile(parsePattern(pattern).regex)
    /\ pending' = [pending EXCEPT ![p] =
                      [NoRoute EXCEPT !.method = method, !.pattern = pattern, !.handler = h]]
    /\ stack' = [stack EXCEPT ![p] = Append(@, [mw |-> cur[p].fn, layer |-> "h"])]
    /\ pc' = [pc EXCEPT ![p] = "hBuilt"]
    /\ Log(p, <<Event("fn", cur[p].fn, "")>>)
    /\ UNCHANGED <<routes, middleware, debug, pool, ctxs, nreq, via, cx, cur, ret, looked,
                   out, dirty, req, given, mu, torn, seen, grpVars, conVars, derived>>

\* r.mu.Unlock(), Handle returns into the handler that called it, and the
\* handler returns nil
HandleReturn(p) ==
    /\ pc[p] = "hStored"
    /\ InHandler(p)
    /\ mu' = [mu EXCEPT !.writer = 0]
    /\ pending' = [pending EXCEPT ![p] = NoRoute]
    /\ stack' = [stack EXCEPT ![p] = SubSeq(@, 1, Len(@) - 1)]
    /\ ret' = [ret EXCEPT ![p] = NilErr]
    /\ pc' = [pc EXCEPT ![p] = "ret"]
    /\ UNCHANGED <<routes, middleware, debug, pool, ctxs, nreq, via, cx, cur, looked,
                   out, trace, dirty, req, given, torn, seen, grpVars, conVars, derived>>

\* SpecDirect: an application with global middleware and routes whose
\* requests arrive through App.ServeHTTP or, with a.Router() used as the
\* http.Handler, through Router.ServeHTTP
NextDirect ==
    \/ Use("mw1")
    \/ HandleApp
    \/ \E r \in AppRequests : nreq < MaxReqs /\ AppServeHTTP(1, r)
    \/ \E r \in AppRequests : nreq < MaxReqs /\ RouterServeHTTP(1, r)
    \/ CallMw(1)
    \/ Lookup(1)
    \/ CallNotFound(1)
    \/ CallMethodNotAllowed(1)
    \/ CallHandler(1, RouterBehaviours)
    \/ ReturnMw(1)
    \/ Translate(1)
    \/ Release(1)
    \/ ReturnDirect(1)

SpecDirect == Init /\ [][NextDirect]_vars

\* SpecServe: goroutine 1 serves requests through Router.ServeHTTP, with
\* the lookup taken statement by statement and handlers that may register
\* a route themselves, while goroutine 2 registers routes
NextServe ==
    \/ \E pat \in {PatAX, PatR} :
          /\ Len(routes) + Cardinality(Registering) < MaxLockRoutes
          /\ HandleBegin(2, "GET", pat, "h1", <<>>)
    \/ /\ Len(routes) + Cardinality(Registering) < MaxLockRoutes
       /\ CallHandlerRegister(1, "GET", PatR, "h2")
    \/ \E p \in Procs : HandleCompile(p)
    \/ \E p \in Procs : HandleLock(p)
    \/ \E p \in Procs : HandleAppend(p)
    \/ \E p \in Procs : HandleStore(p)
    \/ \E p \in Procs : HandleUnlock(p)
    \/ \E p \in Procs : HandleReturn(p)
    \/ \E path \in {PathA1, PatR} :
          nreq < MaxLockFinds /\ RouterServeHTTP(1, [method |-> "GET", path |-> path])
    \/ LookupRLock(1)
    \/ FindRange(1)
    \/ FindScan(1)
    \/ LookupRUnlock(1)
    \/ CallNotFound(1)
    \/ CallHandler(1, GroupBehaviours)
    \/ ReturnDirect(1)

SpecServe == InitGroup /\ [][NextServe]_vars

\* every goroutine that can take a step of Handle or of a request takes one
SpecServeFair ==
    SpecServe /\ \A p \in Procs :
        WF_vars(HandleCompile(p) \/ HandleLock(p) \/ HandleAppend(p) \/ HandleStore(p)
                \/ HandleUnlock(p) \/ HandleReturn(p) \/ FindRange(p) \/ FindScan(p)
                \/ LookupRUnlock(p))

NextLock ==
    \/ \E p \in Procs, pat \in {PatR, PatAX, PatBad} :
          /\ Len(routes) + Cardinality(Registering) < MaxLockRoutes
          /\ HandleBegin(p, "GET", pat, "h1", <<>>)
    \/ \E p \in Procs : HandleCompile(p)
    \/ \E p \in Procs : HandleLock(p)
    \/ \E p \in Procs : HandleAppend(p)
    \/ \E p \in Procs : HandleStore(p)
    \/ \E p \in Procs : HandleUnlock(p)
    \/ \E p \in Procs, path \in {PatR, PathA1} :
          nreq < MaxLockFinds /\ FindRLock(p, [method |-> "GET", path |-> path])
    \/ \E p \in Procs : FindRange(p)
    \/ \E p \in Procs : FindScan(p)
    \/ \E p \in Procs : FindRUnlock(p)

SpecLock == InitGroup /\ [][NextLock]_vars

\* SpecMatch: a caller with a path of its own choice, routes registered
\* from patterns of every kind, the path looked up by Router.ServeHTTP
PathChars == {"/", "a", "1", "{"}

Paths == SeqsUpTo(PathChars, MaxPathLen)

PatXY == <<"/", "{", "x", "}", "/", "{", "y", "}">>

\* "/{x:(a)}/{y}": a constraint with a group of its own
PatInner == <<"/", "{", "x", ":", "(", "a", ")", "}", "/", "{", "y", "}">>

PatRoot == <<"/">>

PatEmpty == <<>>

\* "/a{": a "{" with no "}" behind it
PatBrace == <<"/", "a", "{">>

\* "/{a": the same at the start of a segment
PatOpen == <<"/", "{", "a">>

PatA == <<"/", "a">>

PatCatch == <<"/", "{", "p", ":", ".", "*", "}">>

MatchPatterns == {PatXY, PatInner, PatRoot, PatEmpty, PatBrace, PatOpen, PatA, PatCatch}

InitMatch ==
    /\ debug = FALSE
    /\ req \in {[p \in Procs |-> IF p = 1 THEN [method |-> "GET", path |-> q] ELSE NoReq] :
                   q \in Paths}
    /\ InitRest

\* the table is filled before the request is served
HandleMatch ==
    /\ nreq = 0
    /\ Len(routes) < MaxMatchRoutes
    /\ \E pat \in MatchPatterns : Handle("GET", pat, "h1", <<>>)
    /\ UNCHANGED regVars

NextMatch ==
    \/ HandleMatch
    \/ nreq < MaxMatchReqs /\ RouterServeHTTP(1, req[1])
    \/ Lookup(1)
    \/ CallNotFound(1)
    \/ CallHandler(1, GroupBehaviours)
    \/ ReturnDirect(1)

SpecMatch == InitMatch /\ [][NextMatch]_vars

\* ------------------------------------------------------------------------
\* Properties
\* ------------------------------------------------------------------------

\* process p takes the step that appends e as the last event of its trace
Logs(p, e) ==
    /\ Len(trace'[p]) > Len(trace[p])
    /\ trace'[p][Len(trace'[p])].e = e

Accepts(route, path) == MatchFrom(route.regex, 1, path, 1).ok

\* the routes of table rs whose matcher accepts path / that also have method
Accepting(rs, path) == {i \in 1..Len(rs) : Accepts(rs[i], path)}

Serving(rs, method, path) == {i \in Accepting(rs, path) : rs[i].method = method}

HasEvent(p, e, id) == \E k \in 1..Len(trace[p]) : trace[p][k].e = e /\ trace[p][k].id = id

\* C1: a lookup returns the earliest-registered route whose matcher accepts
\* the path and whose method is the requested one, with the parameters that
\* route extracts, and no route when there is none (first match wins, not
\* the most specific).
C1_FirstMatchWins ==
    [][\A p \in Procs : Logs(p, "lookup") =>
          LET r == ctxs[cx[p]].Request
              S == Serving(routes, r.method, r.path)
          IN IF S = {}
             THEN looked'[p].route = 0
             ELSE /\ looked'[p].route = Min(S)
                  /\ looked'[p].params = match(routes[Min(S)], r.path).params
                  /\ ctxs'[cx[p]].params = looked'[p].params]_vars

\* "/a/{x}" registered before "/a/fixed" for the same method, and a request
\* for "/a/fixed" was served by the "/a/{x}" route with x = "fixed"
C1_Witness ==
    \E i, j \in 1..Len(routes) :
        /\ i < j
        /\ routes[i].pattern = PatAX
        /\ routes[j].pattern = PatAFixed
        /\ routes[i].method = routes[j].method
        /\ pc[1] = "done"
        /\ req[1] = [method |-> routes[i].method, path |-> PatAFixed]
        /\ looked[1].route = i
        /\ HasEvent(1, "fn", "h1")
        /\ ctxs[cx[1]].params = [n \in {<<"x">>} |-> <<"f", "i", "x", "e", "d">>]

\* C2: when no registered pattern accepts the path the lookup reports no
\* route with the path-matched flag false and the not-found handler answers
\* 404; when some pattern accepts the path but no accepting route has the
\* method, it reports no route with the flag true and the
\* method-not-allowed handler answers 405.
C2_NotFoundVsMethodNotAllowed ==
    [][\A p \in Procs :
          /\ Logs(p, "lookup") =>
                LET r == ctxs[cx[p]].Request
                IN /\ Accepting(routes, r.path) = {} =>
                         /\ looked'[p].route = 0
                         /\ ~looked'[p].pathMatched
                         /\ cur'[p] = Fn("notFound")
                   /\ (/\ Accepting(routes, r.path) # {}
                       /\ Serving(routes, r.method, r.path) = {}) =>
                         /\ looked'[p].route = 0
                         /\ looked'[p].pathMatched
                         /\ cur'[p] = Fn("methodNotAllowed")
          /\ (Logs(p, "fn") /\ looked[p].route = 0 /\ HasEvent(p, "lookup", "")) =>
                /\ trace'[p][Len(trace'[p])].id =
                      IF looked[p].pathMatched THEN "methodNotAllowed" ELSE "notFound"
                /\ out'[p] = Append(out[p],
                      IF looked[p].pathMatched
                      THEN Body(405, "method not allowed", "")
                      ELSE Body(404, "route not found", ""))]_vars

\* a route registered for one method only, a request for its path with the
\* other method, answered 405
C2_Witness ==
    /\ pc[1] = "done"
    /\ Accepting(routes, req[1].path) # {}
    /\ Serving(routes, req[1].method, req[1].path) = {}
    /\ looked[1] = [route |-> 0, params |-> EmptyMap, pathMatched |-> TRUE]
    /\ HasEvent(1, "fn", "methodNotAllowed")
    /\ out[1] = <<Body(405, "method not allowed", "")>>

\* the events of one invocation of mws around h in which every middleware
\* calls next once
Onion(mws, h, layer) ==
    [k \in 1..Len(mws) |-> Event("pre", mws[k], layer)]
    \o <<Event("fn", h, "")>>
    \o [k \in 1..Len(mws) |-> Event("post", mws[Len(mws) + 1 - k], layer)]

CalledNextOnce(p) == \A k \in 1..Len(trace[p]) : trace[p][k].e # "short"

\* C3: Chain(m1..mn)(h) and WrapMiddleware(h, m1..mn) run as
\* m1(m2(...mn(h))): when every middleware calls next once the events are
\* m1-pre .. mn-pre, h, mn-post .. m1-post, and for n = 0 just h.
C3_OnionOrder ==
    \A p \in Procs :
        (pc[p] = "done" /\ via[p] = "chain" /\ CalledNextOnce(p)) =>
            trace[p] = Onion(given[p].mws, given[p].h, "c")

\* a chain of two different middleware has run to its end
C3_Witness ==
    /\ pc[1] = "done"
    /\ via[1] = "chain"
    /\ given[1].how = "Chain"
    /\ given[1].mws = <<"mw1", "mw2">>
    /\ CalledNextOnce(1)
    /\ Len(trace[1]) = 5

Pre(mws, layer) == [k \in 1..Len(mws) |-> Event("pre", mws[k], layer)]

Post(mws, layer) == [k \in 1..Len(mws) |-> Event("post", mws[Len(mws) + 1 - k], layer)]

\* no middleware answered without calling next and no handler panicked
Undisturbed(p) ==
    \A k \in 1..Len(trace[p]) : trace[p][k].e \notin {"short", "recover", "abort"}

\* the events of a request App.ServeHTTP served to its end
ServedTrace(p) ==
    Pre(middleware, "g")
    \o <<Event("lookup", "", "")>>
    \o (IF looked[p].route = 0
        THEN <<Event("fn", IF looked[p].pathMatched THEN "methodNotAllowed"
                                                     ELSE "notFound", "")>>
        ELSE Onion(routes[looked[p].route].middleware,
                   routes[looked[p].route].handler, "r"))
    \o Post(middleware, "g")
    \o (IF ret[p] # NilErr THEN <<Event("handleError", "", "")>> ELSE <<>>)
    \o <<Event("put", "", "")>>

\* C4: in App.ServeHTTP the pre-logic of every global middleware, in
\* App.Use order, runs before the lookup; the route's middleware and handler,
\* or on a failed lookup the not-found / method-not-allowed handler with no
\* route middleware, run inside the whole global chain, whose post-logic
\* follows in reverse order.
C4_GlobalMiddlewareWrapsLookup ==
    \A p \in Procs : via[p] = "app" =>
        /\ \A k \in 1..Len(trace[p]) : trace[p][k].e = "lookup" =>
              SubSeq(trace[p], 1, k - 1) = Pre(middleware, "g")
        /\ (pc[p] = "done" /\ Undisturbed(p)) => trace[p] = ServedTrace(p)

\* a request for an unregistered path answered by the not-found handler
\* inside two global middleware
C4_Witness ==
    /\ pc[1] = "done"
    /\ via[1] = "app"
    /\ middleware = <<"mw1", MiddlewareRecovery>>
    /\ looked[1].route = 0
    /\ trace[1] = <<Event("pre", "mw1", "g"), Event("pre", MiddlewareRecovery, "g"),
                    Event("lookup", "", ""), Event("fn", "notFound", ""),
                    Event("post", MiddlewareRecovery, "g"), Event("post", "mw1", "g"),
                    Event("put", "", "")>>

\* process p takes the first step of App.ServeHTTP
Acquires(p) == pc[p] \in Resting /\ pc'[p] = "call" /\ via'[p] = "app"

\* C5: no Context instance is used by two in-flight requests: an instance
\* in use is not in the pool, two in-flight dispatches hold different
\* instances, the pool grows only by the instance of a dispatch that
\* finishes, put back once, and an acquisition on an empty pool allocates a
\* fresh instance.
C5_NoSharedContext ==
    /\ [](\A p \in Procs : (InFlight(p) /\ via[p] = "app") =>
             /\ cx[p] \notin pool
             /\ \A q \in Procs \ {p} :
                   (InFlight(q) /\ via[q] = "app") => cx[q] # cx[p])
    /\ [][/\ \A ci \in pool' \ pool :
                \E p \in Procs : pc[p] = "put" /\ pc'[p] = "done" /\ cx[p] = ci
          /\ \A p \in Procs : (Acquires(p) /\ pool = {}) =>
                /\ cx'[p] = Len(ctxs) + 1
                /\ Len(ctxs') = Len(ctxs) + 1]_vars

\* two dispatches in flight at once, each on an instance of its own, both
\* beyond their lookup
C5_Witness ==
    /\ InFlight(1) /\ InFlight(2)
    /\ via[1] = "app" /\ via[2] = "app"
    /\ cx[1] # cx[2]
    /\ HasEvent(1, "lookup", "") /\ HasEvent(2, "lookup", "")
    /\ pool = {}

\* C6: the context App.ServeHTTP hands to the handler chain has an empty
\* parameter map, an empty store, the written flag false and the new request
\* and writer attached, whatever the previous user of the instance left.
C6_CleanContext ==
    [][\A p \in Procs : Acquires(p) =>
          ctxs'[cx'[p]] = [Request |-> req'[p], Writer |-> p, params |-> EmptyMap,
                           store |-> EmptyMap, response |-> FALSE]]_vars

\* a request starts on an instance that came back from the pool holding
\* the previous request's data
C6_Witness ==
    \E p \in Procs :
        /\ pc[p] = "call"
        /\ via[p] = "app"
        /\ trace[p] = <<>>
        /\ dirty[p]
        /\ ~HoldsData(ctxs[cx[p]])
        /\ ctxs[cx[p]].Request = req[p]

\* C7: every dispatch that acquired a context puts it back when it ends,
\* also when the handler chain panics and the panic is recovered outside
\* ServeHTTP.
C7_AlwaysReleased ==
    [][\A p \in Procs : (via[p] = "app" /\ InFlight(p) /\ ~InFlight(p)') =>
          cx[p] \in pool']_vars

\* C8: handleError on a context whose response was already written writes
\* nothing and leaves the context as it is.
C8_WrittenResponseWins ==
    [][\A p \in Procs :
          (Logs(p, "handleError") /\ ctxs[cx[p]].response) =>
              /\ out'[p] = out[p]
              /\ ctxs' = ctxs]_vars

\* a handler wrote a response and returned an error; after the error
\* translation the response is still the only output
C8_Witness ==
    /\ pc[1] = "put"
    /\ ret[1] = PlainError("boom")
    /\ HasEvent(1, "handleError", "")
    /\ ctxs[cx[1]].response
    /\ out[1] = <<Body(StatusOK, "ok", "")>>

\* C9: within a request, once the response-written flag is true no further
\* call is made on the response writer, so that at most one response is
\* written per request.
C9_SingleResponse ==
    /\ [](\A p \in Procs : Len(out[p]) <= 1)
    /\ [][\A p \in Procs :
             (InFlight(p) /\ ctxs[cx[p]].response) => out'[p] = out[p]]_vars

\* C10: handleError on an unwritten context answers an HTTPError with its
\* Code and Message and any other error with 500 "Internal Server Error";
\* the cause or error text is in the response only in debug mode.
C10_ErrorTranslation ==
    [][\A p \in Procs :
          (Logs(p, "handleError") /\ ~ctxs[cx[p]].response) =>
              \E dbg \in (IF debug THEN {"", ret[p].cause, ret[p].msg} ELSE {""}) :
                  /\ out'[p] = Append(out[p],
                        IF ret[p].kind = "http"
                        THEN Body(ret[p].code, ret[p].msg, dbg)
                        ELSE Body(500, "Internal Server Error", dbg))
                  /\ (debug /\ ret[p].kind = "http") => dbg = ret[p].cause
                  /\ (debug /\ ret[p].kind # "http") => dbg = ret[p].msg]_vars

\* a wrapped HTTPError translated in debug mode
C10_Witness ==
    /\ pc[1] = "put"
    /\ debug
    /\ ret[1] = WrapError(StatusBadRequest, "invalid JSON", "cause")
    /\ HasEvent(1, "handleError", "")
    /\ out[1] = <<Body(400, "invalid JSON", "cause")>>

\* the positions of the events e in the trace of process p
At(p, e) == {k \in 1..Len(trace[p]) : trace[p][k].e = e}

\* C11: App.ServeHTTP is one pass: the acquisition takes one instance and
\* resets it, the composed chain is entered once and the lookup runs at most
\* once, the error translation runs at most once and only when the whole
\* chain has returned, nothing follows it but the release, and every pass
\* ends with the release of the context as its last step.
C11_SinglePass ==
    /\ [](\A p \in Procs : via[p] = "app" =>
             /\ Cardinality(At(p, "lookup")) <= 1
             /\ Cardinality(At(p, "handleError")) <= 1
             /\ Cardinality(At(p, "put")) <= 1
             /\ \A k \in At(p, "handleError") :
                   \A j \in (k + 1)..Len(trace[p]) : trace[p][j].e = "put"
             /\ \A k \in At(p, "put") : k = Len(trace[p])
             /\ (pc[p] \in {"done", "aborted"}) =>
                   /\ trace[p] # <<>>
                   /\ trace[p][Len(trace[p])].e = "put"
                   /\ cx[p] \in pool)
    /\ [][\A p \in Procs :
             /\ Acquires(p) =>
                   /\ cx'[p] \notin pool'
                   /\ Cardinality(pool \ pool') <= 1
                   /\ \A i \in 1..Len(ctxs) : i # cx'[p] => ctxs'[i] = ctxs[i]
                   /\ cur'[p] = GlobalChain(middleware)
             /\ (via[p] = "app" /\ Logs(p, "handleError")) =>
                   /\ pc[p] = "ret"
                   /\ stack[p] = <<>>
             /\ (via[p] = "app" /\ InFlight(p) /\ InFlight(p)') =>
                   /\ cx'[p] = cx[p]
                   /\ Len(cur'[p].mws) <= Len(cur[p].mws) \/ Logs(p, "lookup")]_vars

\* the first n entries of a middleware list
Outer(mws, n) == SubSeq(mws, 1, n)

\* C12: when a middleware of a composed chain returns without calling next,
\* the terminal handler and every middleware inner to it do not run in that
\* invocation; the post-logic of every middleware outer to it runs, innermost
\* first, and the value it returned is what they receive and what the chain
\* returns.
C12_ShortCircuit ==
    /\ [](\A p \in Procs :
             /\ \A k \in At(p, "short") :
                   \A j \in (k + 1)..Len(trace[p]) :
                       trace[p][j].e \in {"post", "handleError", "put"}
             /\ (via[p] = "chain" /\ pc[p] = "done") =>
                   \A k \in At(p, "short") :
                       /\ k >= 2
                       /\ trace[p] = Pre(Outer(given[p].mws, k - 1), "c")
                                     \o <<Event("short", given[p].mws[k - 1], "c")>>
                                     \o Post(Outer(given[p].mws, k - 2), "c"))
    /\ [][\A p \in Procs :
             /\ (Logs(p, "short") /\ InFlight(p)') => pc'[p] = "ret"
             /\ (via[p] = "chain" /\ At(p, "short") # {} /\ InFlight(p)) =>
                   ret'[p] = ret[p]]_vars

\* the second of three middleware returned an error without calling next:
\* the third and the handler did not run, the first ran its post-logic and
\* the chain returned that error
C12_Witness ==
    /\ pc[1] = "done"
    /\ via[1] = "chain"
    /\ given[1].mws = <<"mw1", "mw2", "mw3">>
    /\ trace[1] = <<Event("pre", "mw1", "c"), Event("pre", "mw2", "c"),
                    Event("short", "mw2", "c"), Event("post", "mw1", "c")>>
    /\ ret[1] = NewHTTPError(StatusUnauthorized, "access denied")

\* the step is call number reg'.n on a group, of kind op
Calls(op) == reg'.n = reg.n + 1 /\ reg'.op = op

\* the middleware list of group g after the step
GroupMiddlewareAfter(g) == Elems(heap', groups'[g].middleware)

\* C13: a nested group holds its parent's middleware followed by the
\* middleware given to Group; a route registered through a group stores the
\* group's middleware followed by the middleware of the registration call;
\* and the route runs them in that stored order around its handler, so
\* parent middleware runs before child middleware before call-site middleware.
C13_GroupMiddlewareOrder ==
    /\ [][/\ Calls("group") =>
                /\ Len(groups') = Len(groups) + 1
                /\ GroupMiddlewareAfter(Len(groups')) = GroupMiddleware(reg'.g) \o reg'.mws
          /\ Calls("handle") =>
                /\ Len(routes') = Len(routes) + 1
                /\ routes'[Len(routes')].middleware = GroupMiddleware(reg'.g) \o reg'.mws]_vars
    /\ [](\A p \in Procs :
             (via[p] = "router" /\ pc[p] = "done" /\ looked[p].route # 0 /\ Undisturbed(p)) =>
                 trace[p] = <<Event("lookup", "", "")>>
                            \o Onion(routes[looked[p].route].middleware,
                                     routes[looked[p].route].handler, "r"))

\* a route registered with its own middleware on a group nested in a group,
\* each group with one middleware, has been served
C13_Witness ==
    /\ Len(groups) = 2
    /\ GroupMiddleware(1) = <<"mw1">>
    /\ GroupMiddleware(2) = <<"mw1", "mw2">>
    /\ reg.op = "handle" /\ reg.g = 2 /\ reg.mws = <<"mw4">>
    /\ pc[1] = "done"
    /\ looked[1].route = 1
    /\ trace[1] = <<Event("lookup", "", ""), Event("pre", "mw1", "r"),
                    Event("pre", "mw2", "r"), Event("pre", "mw4", "r"),
                    Event("fn", "h1", ""), Event("post", "mw4", "r"),
                    Event("post", "mw2", "r"), Event("post", "mw1", "r")>>

\* C14: a nested group has a middleware list of its own: a call on one
\* group changes no other group's list (a Use extends the list of the group
\* it is called on and only that one; creating a group or registering a
\* route changes no existing list), and no call changes a route already
\* registered.
C14_CopyOnGroup ==
    [][/\ \A g \in 1..Len(groups) :
             IF Calls("use") /\ reg'.g = g
             THEN GroupMiddlewareAfter(g) = GroupMiddleware(g) \o reg'.mws
             ELSE GroupMiddlewareAfter(g) = GroupMiddleware(g)
       /\ \A i \in 1..Len(routes) : routes'[i] = routes[i]]_vars

\* the parent's list was extended in place, in the spare capacity of its
\* array, after a child with a middleware of its own had been created from
\* it; the child still holds what it was created with
C14_Witness ==
    /\ Len(groups) = 2
    /\ reg.op = "use" /\ reg.g = 1
    /\ groups[1].middleware = [arr |-> 1, len |-> 2, cap |-> 2]
    /\ GroupMiddleware(1) = <<"mw3", "mw3">>
    /\ GroupMiddleware(2) = <<"mw3", "mw2">>
    /\ groups[2].middleware.arr # groups[1].middleware.arr

Finding == {p \in Procs : pc[p] \in {"fLocked", "fRanged", "fScanned"}}

\* a Route as Router.Handle leaves it
Complete(route) ==
    route = NewRoute(route.method, route.pattern, route.handler, route.middleware)

\* C15: registration excludes lookups and other registrations while
\* lookups share the lock: a lookup reads a table that is the table of
\* complete routes as it stands between two registrations, which stays
\* that table until the lookup has returned, the result is the one of
\* that table, and no step of a lookup changes the table.
C15_RegistrationExcludesLookup ==
    /\ [](/\ mu.writer # 0 => mu.readers = {}
          /\ torn => mu.writer # 0
          /\ \A p \in Procs : pc[p] \in {"hLocked", "hAppending", "hStored"} => mu.writer = p
          /\ \A p \in Finding : p \in mu.readers /\ ~torn
          /\ \A p \in Procs : pc[p] \in {"fRanged", "fScanned"} =>
                /\ seen[p] = routes
                /\ \A i \in 1..Len(seen[p]) : Complete(seen[p][i])
          /\ \A p \in Procs : pc[p] = "fScanned" =>
                looked[p] = find(routes, req[p].method, req[p].path))
    /\ [][\A p \in Finding :
             /\ pc'[p] \in {"fRanged", "fScanned"} => routes' = routes
             /\ pc'[p] # pc[p] => routes' = routes /\ torn' = torn]_vars

\* two lookups hold the read lock at once on a table that has a route
C15_Witness ==
    /\ Len(routes) = 1
    /\ mu.readers = {1, 2}
    /\ pc[1] = "fRanged" /\ pc[2] = "fScanned"
    /\ looked[2].route = 1

\* process p takes the step from position a to position b
Moves(p, a, b) == pc[p] = a /\ pc'[p] = b

\* the table changes only by the append of a Handle call, which adds the
\* Route built from the call's arguments behind the routes already there
AppendOnly ==
    /\ \A p \in Procs : Moves(p, "hAppending", "hStored") =>
          /\ routes' = Append(routes, pending[p])
          /\ Complete(pending[p])
    /\ routes' # routes => \E p \in Procs : Moves(p, "hAppending", "hStored")
    /\ \A p \in Procs : Moves(p, "hStored", "done") => routes[Len(routes)] = pending[p]

\* C16 as stated: no Handle call is rejected, every call adds exactly one
\* route behind the existing ones, duplicates included, and nothing else
\* changes the table.
C16_HandleNeverRejects ==
    [][/\ \A p \in Procs : (pc[p] = "hBuilt" /\ pc'[p] # "hBuilt") => pc'[p] = "hCompiled"
       /\ AppendOnly]_vars

\* C16, amended: a Handle call is rejected, by a panic that leaves the
\* table as it is, exactly when a placeholder constraint of its pattern
\* is not a regular expression; every other call adds exactly one route
\* behind the existing ones, duplicates included, and nothing else changes
\* the table.
C16_HandleAppendsValid ==
    [][/\ \A p \in Procs : (pc[p] = "hBuilt" /\ pc'[p] # "hBuilt") =>
             /\ pc'[p] = (IF MustCompile(parsePattern(pending[p].pattern).regex)
                          THEN "hCompiled" ELSE "aborted")
             /\ routes' = routes
       /\ AppendOnly]_vars

\* the same method and pattern registered twice, and a registration with
\* a constraint that does not compile rejected
C16_Witness ==
    /\ Len(routes) = 2
    /\ routes[1] = routes[2]
    /\ \E p \in Procs : pc[p] = "aborted"

\* the placeholders of a route, in pattern order
Placeholders(route) == SelectSeq(route.regex, LAMBDA t : t.t = "grp")

\* the substring of path that the i-th placeholder of route matched: the
\* submatch of its own group, behind the groups of the placeholders before
\* it and of their constraints
MatchedBy(route, path, i) ==
    LET before == {j \in 1..(i - 1) : Parenthesised(Placeholders(route)[j].re)}
    IN MatchFrom(route.regex, 1, path, 1).caps[i + Cardinality(before)]

\* process p has looked its path up and found a route
Found(p) == via[p] = "router" /\ HasEvent(p, "lookup", "") /\ looked[p].route # 0

\* C17: after a successful lookup the parameter map binds the name of the
\* i-th placeholder of the route to the substring the i-th placeholder
\* matched, for every placeholder and every constraint.
C17_ParamsInPatternOrder ==
    \A p \in Procs : Found(p) =>
        LET route == routes[looked[p].route]
        IN /\ Len(route.paramNames) = Len(Placeholders(route))
           /\ \A i \in 1..Len(route.paramNames) :
                 /\ route.paramNames[i] \in DOMAIN ctxs[cx[p]].params
                 /\ ctxs[cx[p]].params[route.paramNames[i]] =
                       MatchedBy(route, req[p].path, i)

\* path does not end in a separator
Unslashed(path) == path # <<>> /\ path[Len(path)] # "/"

\* C18: for a registered pattern and a non-empty path that does not end in
\* "/", the path is accepted iff the path followed by "/" is, with the same
\* parameter values, and the pattern followed by "/" accepts the same paths.
C18_TrailingSlashInsignificant ==
    \A i \in 1..Len(routes) :
        LET path    == req[1].path
            slashed == NewRoute(routes[i].method, routes[i].pattern \o <<"/">>,
                                routes[i].handler, routes[i].middleware)
        IN /\ Unslashed(path) =>
                 /\ Accepts(routes[i], path) <=> Accepts(routes[i], path \o <<"/">>)
                 /\ Accepts(routes[i], path) =>
                       match(routes[i], path).params = match(routes[i], path \o <<"/">>).params
           /\ Unslashed(routes[i].pattern) =>
                 (Accepts(slashed, path) <=> Accepts(routes[i], path))

\* C19: "" and "/" compile to the same matcher, and a lookup finds a route
\* registered with either only for the path "/".
C19_RootOnly ==
    /\ \A i \in 1..Len(routes) : routes[i].pattern \in {PatEmpty, PatRoot} =>
          /\ routes[i].regex = parsePattern(PatRoot).regex
          /\ routes[i].regex = parsePattern(PatEmpty).regex
          /\ routes[i].paramNames = <<>>
    /\ \A p \in Procs :
          (via[p] = "router" /\ HasEvent(p, "lookup", "") /\ routes # <<>>
              /\ routes[1].pattern \in {PatEmpty, PatRoot}) =>
                  (looked[p].route = 1 <=> req[p].path = <<"/">>)

\* no "{" of the pattern has a "}" behind it
Unterminated(pattern) ==
    /\ \E k \in 1..Len(pattern) : pattern[k] = "{"
    /\ \A k \in 1..Len(pattern) : pattern[k] # "}"

\* C20: a pattern whose "{" has no "}" behind it is registered like any
\* other; every character of it, the "{" and those behind it included, is a
\* literal of the matcher, it has no parameter, and a lookup finds the route
\* exactly for the pattern's own text, with or without a final "/".
C20_UnterminatedBraceIsLiteral ==
    /\ \A i \in 1..Len(routes) : Unterminated(routes[i].pattern) =>
          /\ routes[i].regex = [k \in 1..Len(routes[i].pattern) |-> Lit(routes[i].pattern[k])]
          /\ routes[i].paramNames = <<>>
    /\ \A p \in Procs : (via[p] = "router" /\ HasEvent(p, "lookup", "")) =>
          \A i \in 1..Len(routes) : Unterminated(routes[i].pattern) =>
              LET own == req[p].path \in {routes[i].pattern, routes[i].pattern \o <<"/">>}
              IN /\ looked[p].route = i => (own /\ ctxs[cx[p]].params = EmptyMap)
                 /\ (own /\ \A j \in 1..(i - 1) : ~Accepts(routes[j], req[p].path)) =>
                        looked[p].route = i

\* "/a{" was registered and the path "/a{/" was served by its route
C20_Witness ==
    /\ routes # <<>>
    /\ routes[1].pattern = PatBrace
    /\ pc[1] = "done"
    /\ req[1].path = <<"/", "a", "{", "/">>
    /\ looked[1].route = 1
    /\ HasEvent(1, "fn", "h1")

\* a group prefix in normal form: empty (the root), or beginning with a
\* separator and not ending with one
NormalPrefix(prefix) ==
    prefix = <<>> \/ (prefix[1] = "/" /\ prefix[Len(prefix)] # "/")

\* C21: every group's prefix begins with a separator and has no trailing
\* one; a nested group's prefix is its parent's followed by the prefix
\* given to Group without its trailing separator; and a route registered
\* through a group has the pattern prefix + p and accepts the path prefix + p.
C21_GroupPrefix ==
    /\ [](\A g \in 1..Len(groups) : NormalPrefix(groups[g].prefix))
    /\ [][/\ Calls("group") =>
                groups'[Len(groups')].prefix = groups[reg'.g].prefix \o TrimSuffixSlash(reg'.pat)
          /\ Calls("handle") =>
                /\ routes'[Len(routes')].pattern = groups[reg'.g].prefix \o reg'.pat
                /\ Accepts(routes'[Len(routes')], groups[reg'.g].prefix \o reg'.pat)]_vars

\* the middleware each group was given by the calls cs: what it was created
\* with (after its parent's, for a nested group) followed by what the Use
\* calls on it added, in call order
RECURSIVE Given(_)
Given(cs) ==
    IF cs = <<>> THEN <<>>
    ELSE LET prev == Given(SubSeq(cs, 1, Len(cs) - 1))
             c    == cs[Len(cs)]
         IN CASE c.op = "new"   -> Append(prev, c.mws)
              [] c.op = "group" -> Append(prev, prev[c.g] \o c.mws)
              [] c.op = "use"   -> [prev EXCEPT ![c.g] = @ \o c.mws]
              [] OTHER          -> prev

\* C22: a route registered on a group stores the middleware the group was
\* given up to that moment, the additions of every earlier Use on it
\* included, followed by the call's own; no later call changes the list of a
\* registered route; and a served request runs exactly the stored list.
C22_UseAppliesToLaterRoutes ==
    /\ [][/\ Calls("handle") =>
                routes'[Len(routes')].middleware = Given(calls)[reg'.g] \o reg'.mws
          /\ \A i \in 1..Len(routes) : routes'[i].middleware = routes[i].middleware]_vars
    /\ [](\A p \in Procs :
             (via[p] = "router" /\ pc[p] = "done" /\ looked[p].route # 0 /\ Undisturbed(p)) =>
                 Pre(routes[looked[p].route].middleware, "r")
                     = SelectSeq(trace[p], LAMBDA ev : ev.e = "pre"))

\* the events of log behind its last Reset or Clear
RECURSIVE SinceReset(_)
SinceReset(log) ==
    IF log = <<>> THEN <<>>
    ELSE IF log[Len(log)].e \in {"reset", "clear"} THEN <<>>
    ELSE Append(SinceReset(SubSeq(log, 1, Len(log) - 1)), log[Len(log)])

\* how many events e of name the log holds behind its last Reset or Clear
Count(e, name) ==
    Len(SelectSeq(SinceReset(clog), LAMBDA ev : ev.e = e /\ ev.name = name))

\* the step appends event e to the container's log
ConLogs(e) == Len(clog') = Len(clog) + 1 /\ clog'[Len(clog')].e = e

\* the step is the return of a Get call of goroutine p to its caller
GetReturns(p) == Len(got'[p]) = Len(got[p]) + 1 /\ got'[p][Len(got'[p])].op = "get"

\* C23 as stated: between two Reset or Clear calls the factory of a name is
\* invoked at most once, and a Get that returns a value returns the cached
\* instance of the name.
C23_FactoryOnce ==
    /\ [](\A name \in Names : Count("factory", name) <= 1)
    /\ [][\A p \in Procs : (GetReturns(p) /\ got'[p][Len(got'[p])].ok) =>
             LET r == got'[p][Len(got'[p])]
             IN r.name \in DOMAIN instances' /\ r.val = instances'[r.name]]_vars

\* C23, amended: a factory is invoked only by a goroutine that holds the
\* write lock and only while no instance of the name is cached; between two
\* Reset or Clear calls at most one invocation per name ends with a value,
\* which is cached; a cached instance is replaced by RegisterInstance only
\* and removed by Reset and Clear only; and a Get that returns a value
\* returns the cached instance.
C23_BuiltOnceWhileCached ==
    /\ [](\A name \in Names : Count("store", name) <= 1)
    /\ [][/\ ConLogs("factory") =>
                /\ clog'[Len(clog')].name \notin DOMAIN instances
                /\ cmu.writer # 0
                /\ AtGet(cmu.writer, "locked")
                /\ clog'[Len(clog')].name = Top(cmu.writer).name
          /\ \A name \in DOMAIN instances :
                /\ name \notin DOMAIN instances' => (ConLogs("reset") \/ ConLogs("clear"))
                /\ (name \in DOMAIN instances' /\ instances'[name] # instances[name]) =>
                      (ConLogs("instance") /\ clog'[Len(clog')].name = name)
          /\ \A p \in Procs : (GetReturns(p) /\ got'[p][Len(got'[p])].ok) =>
                LET r == got'[p][Len(got'[p])]
                IN r.name \in DOMAIN instances' /\ r.val = instances'[r.name]]_vars

\* goroutine 1 has built and got "config"; goroutine 2, which had found no
\* instance under the read lock, now holds the write lock and is about to
\* look again
C23_Witness ==
    /\ got[1] # <<>>
    /\ "config" \in DOMAIN instances
    /\ got[1][Len(got[1])] = [op |-> "get", name |-> "config", ok |-> TRUE,
                              val |-> instances["config"], err |-> <<>>]
    /\ Count("factory", "config") = 1
    /\ AtGet(2, "locked")
    /\ Top(2).name = "config"

\* C24: every Get call returns, also one whose factory calls Get on the
\* same container for another name, directly or through an alias.
C24_GetTerminates ==
    \A p \in Procs : (cstack[p] # <<>>) ~> (cstack[p] = <<>>)

\* the names the log gave an instance to, by RegisterInstance or by a
\* factory, behind its last Reset or Clear
Cached(log) ==
    {ev.name : ev \in {SinceReset(log)[k] : k \in 1..Len(SinceReset(log))}
                        \cap [e : {"instance", "store"}, name : {"config", "val"}]}

\* C30: Reset empties the instance cache, registered instances included,
\* and leaves the factories alone, so that right after it Has holds exactly
\* of the names with a factory; the cache holds the names given an instance
\* since the last Reset or Clear and no other; and a Get that finds no
\* instance invokes the factory if the name has one and otherwise returns
\* the not-found error.
C30_ResetDropsInstances ==
    /\ [](DOMAIN instances = Cached(clog))
    /\ [][/\ ConLogs("reset") =>
                /\ instances' = EmptyMap
                /\ factories' = factories
                /\ \A name \in {"config", "val"} :
                      HasIn(factories', instances', name) <=> name \in DOMAIN factories
          /\ \A p \in Procs :
                (AtGet(p, "locked") /\ cstack'[p] # cstack[p]
                    /\ Top(p).name \notin DOMAIN instances) =>
                        IF Top(p).name \in DOMAIN factories
                        THEN ConLogs("factory") /\ clog'[Len(clog')].name = Top(p).name
                        ELSE /\ GetReturns(p)
                             /\ got'[p][Len(got'[p])].err = <<"service not found", Top(p).name>>
          /\ \A p \in Procs :
                (Len(got'[p]) = Len(got[p]) + 1 /\ got'[p][Len(got'[p])].op = "has") =>
                    got'[p][Len(got'[p])].ok =
                        (got'[p][Len(got'[p])].name \in DOMAIN factories \cup Cached(clog))]_vars

\* an instance was registered as "val" and a factory as "config"; after
\* Reset, Get("val") returned the not-found error and Get("config") a value
\* of the factory
C30_Witness ==
    /\ Len(clog) >= 3
    /\ SubSeq(clog, 1, 3) = <<ConEvent("instance", "val"), ConEvent("register", "config"),
                              ConEvent("reset", "")>>
    /\ got[1] = << [op |-> "get", name |-> "val", ok |-> FALSE,
                    val |-> Nil, err |-> <<"service not found", "val">>],
                   [op |-> "get", name |-> "config", ok |-> TRUE,
                    val |-> Value("config", 1, <<>>), err |-> <<>>] >>
    /\ DOMAIN instances = {"config"}

\* C25: a WithContext call leaves its receiver as it was, its Request and
\* the context that Request carries included, and returns a Context whose
\* Request carries the given context.
C25_WithContextKeepsReceiver ==
    [][\A p \in Procs : derived'[p].n = derived[p].n + 1 =>
          LET c == derived'[p].recv
          IN /\ ctxs'[c] = ctxs[c]
             /\ RequestContext(ctxs'[c].Request) = RequestContext(ctxs[c].Request)
             /\ RequestContext(ctxs'[derived'[p].ret].Request) = derived'[p].ctx]_vars

\* C26: whoever holds Router.mu is inside find or inside the three
\* statements of Handle between Lock and Unlock; a goroutine that is about
\* to call, is running or has left a handler or middleware holds it neither
\* for reading nor for writing, so a handler that registers a route on the
\* router serving it, and any other goroutine waiting in Handle, gets the
\* lock.
C26_NoLockWhileHandling ==
    /\ [](\A p \in Procs :
             /\ p \in mu.readers => pc[p] \in {"fLocked", "fRanged", "fScanned"}
             /\ mu.writer = p => pc[p] \in {"hLocked", "hAppending", "hStored"}
             /\ (pc[p] \in {"call", "ret", "panic"} \/ InHandler(p)) => p \notin mu.readers)
    /\ \A p \in Procs : (pc[p] = "hCompiled") ~> (pc[p] = "hLocked")

\* the handler of a request for /a/1 registered the route /r during the
\* request, and the request was served to its end
C26_Witness ==
    /\ pc[1] = "done"
    /\ via[1] = "router"
    /\ req[1].path = PathA1
    /\ HasEvent(1, "fn", "h1")
    /\ \E i \in 1..Len(routes) : routes[i].handler = "h2"
    /\ mu = Unlocked

\* C27: during a request served by App.ServeHTTP the parameter map of the
\* context is empty until the lookup has run, and every pre-logic of a
\* global middleware runs before the lookup; from the lookup on the map is
\* the one the lookup produced for the matched route, and route middleware,
\* handlers and the post-logic of the global middleware that wrap the
\* lookup run after it; after a lookup that found no route the map is empty.
C27_ParamsOnlyByLookup ==
    \A p \in Procs : (InFlight(p) /\ via[p] = "app") =>
        LET c == ctxs[cx[p]]
            L == At(p, "lookup")
            t == trace[p]
        IN /\ \A k \in 1..Len(t) :
                 (t[k].e = "pre" /\ t[k].layer = "g") => \A j \in L : k < j
           /\ \A k \in 1..Len(t) :
                 (t[k].layer = "r" \/ t[k].e = "fn") => \E j \in L : j < k
           /\ L = {} => c.params = EmptyMap
           /\ L # {} => c.params = IF looked[p].route = 0 THEN EmptyMap
                                                          ELSE looked[p].params

\* a request for /a/1 on a recycled context went through a global
\* middleware, matched /a/{x}, ran a route middleware and the handler, and
\* is back in the post-logic of the global middleware with x = 1
C27_Witness ==
    /\ via[1] = "app"
    /\ pc[1] = "ret"
    /\ dirty[1]
    /\ ctxs[cx[1]].params = [x \in {<<"x">>} |-> <<"1">>]
    /\ \E k \in 1..Len(trace[1]) : trace[1][k] = Event("pre", "mw2", "r")
    /\ HasEvent(1, "fn", "h1")
    /\ \E k \in 1..Len(trace[1]) : trace[1][k] = Event("post", "mw1", "g")

\* a request whose lookup failed is at its end with an empty parameter map
C27_WitnessFailed ==
    /\ via[1] = "app"
    /\ pc[1] = "put"
    /\ HasEvent(1, "lookup", "")
    /\ looked[1].route = 0
    /\ ctxs[cx[1]].params = EmptyMap

\* C28: the response flag of a context is false when App.ServeHTTP has
\* reset it for a request, goes from false to true only in a step that
\* makes a call on the response writer, and goes from true to false only
\* in the reset for a later request; when handleError has run for a
\* request, the flag is true when the context is put back.
C28_WrittenMonotonic ==
    /\ [](\A p \in Procs :
             (via[p] = "app" /\ pc[p] = "put" /\ HasEvent(p, "handleError", ""))
                => ctxs[cx[p]].response)
    /\ [][\A i \in 1..Len(ctxs') :
             LET acquired == \E p \in Procs : Acquires(p) /\ cx'[p] = i
             IN /\ acquired => ~ctxs'[i].response
                /\ (i <= Len(ctxs) /\ ~acquired) =>
                      /\ ctxs[i].response => ctxs'[i].response
                      /\ (~ctxs[i].response /\ ctxs'[i].response) =>
                            /\ ctxs'[i].Writer = ctxs[i].Writer
                            /\ Len(out'[ctxs[i].Writer]) > Len(out[ctxs[i].Writer])]_vars

\* a context that came back from the pool with the flag set was reset, its
\* handler returned an error without writing, and handleError answered
C28_Witness ==
    /\ via[1] = "app"
    /\ pc[1] = "put"
    /\ dirty[1]
    /\ HasEvent(1, "handleError", "")
    /\ ~HasEvent(1, "short", "mw1")
    /\ Len(out[1]) = 1
    /\ ctxs[cx[1]].response

\* C29: a request served by Router.ServeHTTP gets a context that no
\* earlier request had and that never enters the pool, runs no global
\* middleware, no error translation and no Put, and ends with the error of
\* its chain still in hand and nothing written for it: the step that
\* leaves the chain changes neither a context nor the output nor the pool.
C29_RouterDiscardsError ==
    /\ [](\A p \in Procs : (via[p] = "router" /\ pc[p] # "idle") =>
             /\ cx[p] \notin pool
             /\ \A k \in 1..Len(trace[p]) :
                   trace[p][k].layer # "g" /\ trace[p][k].e \notin {"handleError", "put"}
             /\ (pc[p] \in {"ret", "done"} /\ ret[p] # NilErr) => out[p] = <<>>)
    /\ [][\A p \in Procs :
             /\ (pc[p] \in Resting /\ pc'[p] = "call" /\ via'[p] = "router") =>
                   /\ cx'[p] = Len(ctxs) + 1
                   /\ ctxs' = Append(ctxs, newContext(p, req'[p]))
                   /\ cur'[p] = Fn("handleRequest")
                   /\ pool' = pool
             /\ (via[p] = "router" /\ pc[p] = "ret" /\ pc'[p] # "ret") =>
                   /\ pc'[p] = "done"
                   /\ out' = out /\ ctxs' = ctxs /\ pool' = pool /\ ret' = ret]_vars

\* with a global middleware installed and a used context waiting in the
\* pool, a request served by Router.ServeHTTP ended with an error from its
\* chain and an empty response
C29_Witness ==
    /\ via[1] = "router"
    /\ pc[1] = "done"
    /\ middleware # <<>>
    /\ pool # {}
    /\ ret[1] # NilErr
    /\ HasEvent(1, "fn", "h1")
    /\ out[1] = <<>>

====
